---- MODULE Spec2Model ----
(***************************************************************************)
(* Firmware-log schema loading of librealsense: fw_logs_xml_helper         *)
(* (src/fw-logs/fw-logs-xml-helper.cpp).                                   *)
(*                                                                         *)
(* A document string is modelled by what rapidxml makes of it: an empty    *)
(* text, a text without any element, a text the parser rejects, or a tree  *)
(* of tagged nodes with an ordered attribute list and ordered children.    *)
(* Attribute values are sequences of one-character strings, so that stoi   *)
(* and std::string::append/empty are computed, not assumed.                *)
(***************************************************************************)
EXTENDS Integers, Sequences, FiniteSets, TLC

VARIABLES xml_content, call, result, registry, formatter, decoder, stream,
          _stopped, _ready_for_broadcast, _broadcasters, _broadcasters_mutex,
          _th, broadcaster, gathered, called,
          _dev, device, answer

loader_vars == <<xml_content, call, result>>
formatter_vars == <<registry, formatter, decoder, stream>>
broadcast_vars ==
    <<_stopped, _ready_for_broadcast, _broadcasters, _broadcasters_mutex,
      _th, broadcaster, gathered, called>>
handler_vars == <<_dev, device, answer>>
vars ==
    <<xml_content, call, result, registry, formatter, decoder, stream,
      _stopped, _ready_for_broadcast, _broadcasters, _broadcasters_mutex,
      _th, broadcaster, gathered, called,
      _dev, device, answer>>

(***************************************************************************)
(* Bounds of the explored inputs.                                          *)
(***************************************************************************)
MaxSources == 2
MaxKids == 2
MaxTopNodes == 3
MaxGroups == 3

SeqsUpTo(S, n) == UNION {[1..k -> S] : k \in 0..n}

(***************************************************************************)
(* Strings as character sequences.                                         *)
(***************************************************************************)
Digits == <<"0", "1", "2", "3", "4", "5", "6", "7", "8", "9">>
IsDigit(c) == \E d \in 1..Len(Digits) : Digits[d] = c
DigitVal(c) == (CHOOSE d \in 1..Len(Digits) : Digits[d] = c) - 1
IsSpace(c) == c \in {" ", "\t", "\n"}

RECURSIVE SkipSpace(_, _)
SkipSpace(s, i) == IF i <= Len(s) /\ IsSpace(s[i]) THEN SkipSpace(s, i + 1) ELSE i

\* Longest run of digits of s from position i on: [next, val].
RECURSIVE ParseDigits(_, _, _)
ParseDigits(s, i, acc) ==
    IF i <= Len(s) /\ IsDigit(s[i])
    THEN ParseDigits(s, i + 1, 10 * acc + DigitVal(s[i]))
    ELSE [next |-> i, val |-> acc]

(***************************************************************************)
(* Outcomes.  A call returns a value, throws, or (undefined behaviour)     *)
(* ends the process.  visited is the order in which the root-level loop    *)
(* of the call looked at the root's children (their positions).            *)
(***************************************************************************)
NoValue == "none"
Ok(v) == [kind |-> "ok", err |-> "", tag |-> "", attr |-> "", value |-> v, visited |-> <<>>]
Err(e, t, a) ==
    [kind |-> "error", err |-> e, tag |-> t, attr |-> a, value |-> NoValue, visited |-> <<>>]
Crash == [kind |-> "crash", err |-> "", tag |-> "", attr |-> "", value |-> NoValue, visited |-> <<>>]
Visiting(r, vis) == [r EXCEPT !.visited = vis]
NoResult == [kind |-> "none", err |-> "", tag |-> "", attr |-> "", value |-> NoValue, visited |-> <<>>]

\* std::stoi: leading whitespace, an optional sign, then at least one digit;
\* what follows the digits is ignored.  No digit: std::invalid_argument.
\* (Values here have at most a few characters: out_of_range cannot arise.)
stoi(s) ==
    LET start == SkipSpace(s, 1)
        signed == start <= Len(s) /\ s[start] \in {"+", "-"}
        first == IF signed THEN start + 1 ELSE start
        r == ParseDigits(s, first, 0)
    IN  IF r.next = first THEN Err("NotANumber", "", "")
        ELSE IF signed /\ s[start] = "-" THEN Ok(0 - r.val) ELSE Ok(r.val)

(***************************************************************************)
(* Nodes of a parsed document.                                             *)
(***************************************************************************)
Attr(n, v) == <<n, v>>
Node(t, as, ks) == [tag |-> t, attrs |-> as, kids |-> ks]
Leaf(t, as) == Node(t, as, <<>>)

\* std::unordered_map::insert: an existing key keeps its entry.
insert(m, k, v) ==
    IF k \in DOMAIN m THEN m
    ELSE [x \in (DOMAIN m) \cup {k} |-> IF x = k THEN v ELSE m[x]]

EmptyMap == <<>>

\* Position of the first attribute called name, 0 when there is none: the
\* for loop over first_attribute()/next_attribute() with its compare.
RECURSIVE first_attribute(_, _, _)
first_attribute(as, name, i) ==
    IF i > Len(as) THEN 0
    ELSE IF as[i][1] = name THEN i
    ELSE first_attribute(as, name, i + 1)

get_id_attribute(node) ==
    LET i == first_attribute(node.attrs, "id", 1)
    IN  IF i # 0 THEN stoi(node.attrs[i][2])
        ELSE Err("MissingAttribute", node.tag, "id")

get_name_attribute(node) ==
    LET i == first_attribute(node.attrs, "Name", 1)
    IN  IF i # 0 THEN Ok(node.attrs[i][2])
        ELSE Err("MissingAttribute", node.tag, "Name")

\* Mutant: a Module without verbosity gets verbosity 0.
get_verbosity_attribute_default(node) ==
    LET i == first_attribute(node.attrs, "verbosity", 1)
    IN  IF i # 0 THEN stoi(node.attrs[i][2]) ELSE Ok(0)

get_verbosity_attribute(node) ==
    LET i == first_attribute(node.attrs, "verbosity", 1)
    IN  IF i # 0 THEN stoi(node.attrs[i][2])
        ELSE Err("MissingAttribute", node.tag, "verbosity")

(***************************************************************************)
(* Loading a document string.                                              *)
(***************************************************************************)
\* Bytes of the document string: zero for the empty string only.
TextSize(xml) ==
    CASE xml.kind = "empty" -> 0
      [] xml.kind = "blank" -> 1
      [] xml.kind = "malformed" -> 1
      [] OTHER -> 9 + Len(xml.kids)

\* The copy has two terminating zero bytes more than the string.
string_to_char_buffer(xml) == [size |-> TextSize(xml) + 2, text |-> xml]

\* rapidxml's parse<0>: a text without any element gives a document without
\* nodes; a text that is no XML throws parse_error.
parse(text) ==
    CASE text.kind = "malformed" -> Err("MalformedDocument", "", "")
      [] text.kind \in {"empty", "blank"} ->
            Ok([has_root |-> FALSE, root |-> "", kids |-> <<>>])
      [] OTHER -> Ok([has_root |-> TRUE, root |-> text.root, kids |-> text.kids])

load_external_xml(buffer) ==
    IF buffer.size = 0 THEN Err("EmptyInput", "", "")
    ELSE parse(buffer.text)

\* A node pointer is the position of the node among its siblings, 0 for null.
first_node(kids) == IF Len(kids) > 0 THEN 1 ELSE 0
next_sibling(kids, i) == IF i < Len(kids) THEN i + 1 ELSE 0

\* root->name() on a document without nodes dereferences a null pointer.
Undefined == [kind |-> "ub", err |-> "", tag |-> "", attr |-> "", value |-> NoValue, visited |-> <<>>]

\* Mutant: the root's name is not compared.
get_first_node_unchecked(document) ==
    IF ~document.has_root THEN Undefined
    ELSE Ok(first_node(document.kids))

get_first_node(document) ==
    IF ~document.has_root THEN Undefined
    ELSE IF document.root # "Format" THEN Err("UnexpectedRoot", document.root, "")
    ELSE Ok(first_node(document.kids))

\* What a build can make of the null dereference: the process dies, or the
\* bytes read as the name differ from "Format".
Outcomes(r) ==
    IF r.kind = "ub" THEN {Crash, Visiting(Err("UnexpectedRoot", "", ""), r.visited)}
    ELSE {r}

\* Mutant: the first Source node is taken, whatever its id.
RECURSIVE source_scan_any_id(_, _, _, _)
source_scan_any_id(id, kids, i, vis) ==
    IF i = 0 THEN Visiting(Err("NotFound", "Source", "id"), vis)
    ELSE LET node == kids[i]
             seen == Append(vis, i)
         IN  IF node.tag = "Source"
             THEN LET found == get_id_attribute(node)
                  IN  IF found.kind # "ok" THEN Visiting(found, seen)
                      ELSE Visiting(Ok(i), seen)
             ELSE source_scan_any_id(id, kids, next_sibling(kids, i), seen)

\* Mutant: the tag of the node is not compared.
RECURSIVE source_scan_any_tag(_, _, _, _)
source_scan_any_tag(id, kids, i, vis) ==
    IF i = 0 THEN Visiting(Err("NotFound", "Source", "id"), vis)
    ELSE LET node == kids[i]
             seen == Append(vis, i)
             found == get_id_attribute(node)
         IN  IF found.kind # "ok" THEN Visiting(found, seen)
             ELSE IF id = found.value THEN Visiting(Ok(i), seen)
             ELSE source_scan_any_tag(id, kids, next_sibling(kids, i), seen)

RECURSIVE source_scan(_, _, _, _)
source_scan(id, kids, i, vis) ==
    IF i = 0 THEN Visiting(Err("NotFound", "Source", "id"), vis)
    ELSE LET node == kids[i]
             seen == Append(vis, i)
         IN  IF node.tag = "Source"
             THEN LET found == get_id_attribute(node)
                  IN  IF found.kind # "ok" THEN Visiting(found, seen)
                      ELSE IF id = found.value THEN Visiting(Ok(i), seen)
                      ELSE source_scan(id, kids, next_sibling(kids, i), seen)
             ELSE source_scan(id, kids, next_sibling(kids, i), seen)

get_source_node(id, document) ==
    LET first == get_first_node(document)
    IN  IF first.kind # "ok" THEN first
        ELSE source_scan(id, document.kids, first.value, <<>>)

\* Mutant: the scan stops at the first File child, with or without a Path.
RECURSIVE file_path_scan_first_file(_, _)
file_path_scan_first_file(kids, i) ==
    IF i = 0 THEN <<>>
    ELSE LET node == kids[i]
             a == first_attribute(node.attrs, "Path", 1)
         IN  IF node.tag = "File" THEN (IF a # 0 THEN node.attrs[a][2] ELSE <<>>)
             ELSE file_path_scan_first_file(kids, next_sibling(kids, i))

\* Value of the first "Path" attribute of the first File child that has one;
\* the empty string when there is none.
RECURSIVE file_path_scan(_, _)
file_path_scan(kids, i) ==
    IF i = 0 THEN <<>>
    ELSE LET node == kids[i]
             a == first_attribute(node.attrs, "Path", 1)
         IN  IF node.tag = "File" /\ a # 0 THEN node.attrs[a][2]
             ELSE file_path_scan(kids, next_sibling(kids, i))

get_file_path(source_node) == file_path_scan(source_node.kids, first_node(source_node.kids))

get_source_parser_file_path(id, definitions_xml) ==
    LET buffer == string_to_char_buffer(definitions_xml)
        loaded == load_external_xml(buffer)
    IN  IF loaded.kind # "ok" THEN loaded
        ELSE LET document == loaded.value
                 src == get_source_node(id, document)
             IN  IF src.kind # "ok" THEN src
                 ELSE LET path == get_file_path(document.kids[src.value])
                      IN  IF path = <<>>
                          THEN Visiting(Err("MissingFileNode", "File", "Path"), src.visited)
                          ELSE Visiting(Ok(path), src.visited)

RECURSIVE module_scan(_, _, _)
module_scan(kids, i, module_id_verbosity) ==
    IF i = 0 THEN Ok(module_id_verbosity)
    ELSE LET node == kids[i]
         IN  IF node.tag = "Module"
             THEN LET id == get_id_attribute(node)
                      verbosity == get_verbosity_attribute(node)
                  IN  IF id.kind # "ok" THEN id
                      ELSE IF verbosity.kind # "ok" THEN verbosity
                      ELSE module_scan(kids, next_sibling(kids, i),
                                       insert(module_id_verbosity, id.value, verbosity.value))
             ELSE module_scan(kids, next_sibling(kids, i), module_id_verbosity)

get_source_module_verbosity(id, definitions_xml) ==
    LET buffer == string_to_char_buffer(definitions_xml)
        loaded == load_external_xml(buffer)
    IN  IF loaded.kind # "ok" THEN loaded
        ELSE LET document == loaded.value
                 src == get_source_node(id, document)
             IN  IF src.kind # "ok" THEN src
                 ELSE LET source_node == document.kids[src.value]
                      IN  Visiting(module_scan(source_node.kids, first_node(source_node.kids), EmptyMap),
                                   src.visited)

\* Mutant: an empty format is accepted.
RECURSIVE event_attribute_scan_args_only(_, _, _, _)
event_attribute_scan_args_only(as, i, num_of_args, format) ==
    IF i > Len(as)
    THEN IF num_of_args < 0
         THEN Err("MissingEventAttribute", "Event", "numberOfArguments or format")
         ELSE Ok(<<num_of_args, format>>)
    ELSE IF as[i][1] = "numberOfArguments"
         THEN LET n == stoi(as[i][2])
              IN  IF n.kind # "ok" THEN n
                  ELSE event_attribute_scan_args_only(as, i + 1, n.value, format)
         ELSE IF as[i][1] = "format"
              THEN event_attribute_scan_args_only(as, i + 1, num_of_args, format \o as[i][2])
              ELSE event_attribute_scan_args_only(as, i + 1, num_of_args, format)

\* Mutant: a negative argument count is accepted.
RECURSIVE event_attribute_scan_format_only(_, _, _, _)
event_attribute_scan_format_only(as, i, num_of_args, format) ==
    IF i > Len(as)
    THEN IF format = <<>>
         THEN Err("MissingEventAttribute", "Event", "numberOfArguments or format")
         ELSE Ok(<<num_of_args, format>>)
    ELSE IF as[i][1] = "numberOfArguments"
         THEN LET n == stoi(as[i][2])
              IN  IF n.kind # "ok" THEN n
                  ELSE event_attribute_scan_format_only(as, i + 1, n.value, format)
         ELSE IF as[i][1] = "format"
              THEN event_attribute_scan_format_only(as, i + 1, num_of_args, format \o as[i][2])
              ELSE event_attribute_scan_format_only(as, i + 1, num_of_args, format)

\* numberOfArguments: the last such attribute counts; format: the values of
\* all such attributes, appended.
RECURSIVE event_attribute_scan(_, _, _, _)
event_attribute_scan(as, i, num_of_args, format) ==
    IF i > Len(as)
    THEN IF num_of_args < 0 \/ format = <<>>
         THEN Err("MissingEventAttribute", "Event", "numberOfArguments or format")
         ELSE Ok(<<num_of_args, format>>)
    ELSE IF as[i][1] = "numberOfArguments"
         THEN LET n == stoi(as[i][2])
              IN  IF n.kind # "ok" THEN n
                  ELSE event_attribute_scan(as, i + 1, n.value, format)
         ELSE IF as[i][1] = "format"
              THEN event_attribute_scan(as, i + 1, num_of_args, format \o as[i][2])
              ELSE event_attribute_scan(as, i + 1, num_of_args, format)

get_event_data(node) == event_attribute_scan(node.attrs, 1, -1, <<>>)

RECURSIVE event_scan(_, _, _, _)
event_scan(kids, i, events, vis) ==
    IF i = 0 THEN Visiting(Ok(events), vis)
    ELSE LET node == kids[i]
             seen == Append(vis, i)
         IN  IF node.tag = "Event"
             THEN LET id == get_id_attribute(node)
                      data == get_event_data(node)
                  IN  IF id.kind # "ok" THEN Visiting(id, seen)
                      ELSE IF data.kind # "ok" THEN Visiting(data, seen)
                      ELSE event_scan(kids, next_sibling(kids, i),
                                      insert(events, id.value, data.value), seen)
             ELSE event_scan(kids, next_sibling(kids, i), events, seen)

get_events(parser_contents) ==
    LET buffer == string_to_char_buffer(parser_contents)
        loaded == load_external_xml(buffer)
    IN  IF loaded.kind # "ok" THEN loaded
        ELSE LET document == loaded.value
                 first == get_first_node(document)
             IN  IF first.kind # "ok" THEN first
                 ELSE event_scan(document.kids, first.value, EmptyMap, <<>>)

\* Mutant: the tag of the node is not compared.
RECURSIVE name_scan_any_tag(_, _, _, _, _)
name_scan_any_tag(kids, i, tag, ids_to_names, vis) ==
    IF i = 0 THEN Visiting(Ok(ids_to_names), vis)
    ELSE LET node == kids[i]
             seen == Append(vis, i)
             id == get_id_attribute(node)
             name == get_name_attribute(node)
         IN  IF id.kind # "ok" THEN Visiting(id, seen)
             ELSE IF name.kind # "ok" THEN Visiting(name, seen)
             ELSE name_scan_any_tag(kids, next_sibling(kids, i), tag,
                                    insert(ids_to_names, id.value, name.value), seen)

RECURSIVE name_scan(_, _, _, _, _)
name_scan(kids, i, tag, ids_to_names, vis) ==
    IF i = 0 THEN Visiting(Ok(ids_to_names), vis)
    ELSE LET node == kids[i]
             seen == Append(vis, i)
         IN  IF node.tag = tag
             THEN LET id == get_id_attribute(node)
                      name == get_name_attribute(node)
                  IN  IF id.kind # "ok" THEN Visiting(id, seen)
                      ELSE IF name.kind # "ok" THEN Visiting(name, seen)
                      ELSE name_scan(kids, next_sibling(kids, i), tag,
                                     insert(ids_to_names, id.value, name.value), seen)
             ELSE name_scan(kids, next_sibling(kids, i), tag, ids_to_names, seen)

get_id_to_names(parser_contents, tag) ==
    LET buffer == string_to_char_buffer(parser_contents)
        loaded == load_external_xml(buffer)
    IN  IF loaded.kind # "ok" THEN loaded
        ELSE LET document == loaded.value
                 first == get_first_node(document)
             IN  IF first.kind # "ok" THEN first
                 ELSE name_scan(document.kids, first.value, tag, EmptyMap, <<>>)

get_files(parser_contents) == get_id_to_names(parser_contents, "File")
get_modules(parser_contents) == get_id_to_names(parser_contents, "Module")
get_threads(parser_contents) == get_id_to_names(parser_contents, "Thread")

\* Key: the last such attribute counts; Value: the values of all such
\* attributes, appended.
RECURSIVE enum_value_attribute_scan(_, _, _, _)
enum_value_attribute_scan(as, i, key, value) ==
    IF i > Len(as)
    THEN IF key < 0 \/ value = <<>>
         THEN Err("MissingEnumValueAttribute", "EnumValue", "Key or Value")
         ELSE Ok(<<key, value>>)
    ELSE IF as[i][1] = "Key"
         THEN LET k == stoi(as[i][2])
              IN  IF k.kind # "ok" THEN k
                  ELSE enum_value_attribute_scan(as, i + 1, k.value, value)
         ELSE IF as[i][1] = "Value"
              THEN enum_value_attribute_scan(as, i + 1, key, value \o as[i][2])
              ELSE enum_value_attribute_scan(as, i + 1, key, value)

\* Mutant: a pair is put in front of the pairs read before it.
RECURSIVE enum_value_scan_prepending(_, _, _)
enum_value_scan_prepending(kids, i, values_to_descriptions) ==
    IF i = 0 THEN Ok(values_to_descriptions)
    ELSE LET node == kids[i]
         IN  IF node.tag = "EnumValue"
             THEN LET pair == enum_value_attribute_scan(node.attrs, 1, -1, <<>>)
                  IN  IF pair.kind # "ok" THEN pair
                      ELSE enum_value_scan_prepending(kids, next_sibling(kids, i),
                                                      <<pair.value>> \o values_to_descriptions)
             ELSE enum_value_scan_prepending(kids, next_sibling(kids, i), values_to_descriptions)

RECURSIVE enum_value_scan(_, _, _)
enum_value_scan(kids, i, values_to_descriptions) ==
    IF i = 0 THEN Ok(values_to_descriptions)
    ELSE LET node == kids[i]
         IN  IF node.tag = "EnumValue"
             THEN LET pair == enum_value_attribute_scan(node.attrs, 1, -1, <<>>)
                  IN  IF pair.kind # "ok" THEN pair
                      ELSE enum_value_scan(kids, next_sibling(kids, i),
                                           Append(values_to_descriptions, pair.value))
             ELSE enum_value_scan(kids, next_sibling(kids, i), values_to_descriptions)

get_enum_values(enum_node) == enum_value_scan(enum_node.kids, first_node(enum_node.kids), <<>>)

\* One insertion for every attribute of the group node: under the attribute's
\* value when the attribute is "Name", under the empty name otherwise.
RECURSIVE enum_attribute_scan(_, _, _)
enum_attribute_scan(enum_node, a, enums) ==
    IF a > Len(enum_node.attrs) THEN Ok(enums)
    ELSE LET enum_name == IF enum_node.attrs[a][1] = "Name" THEN enum_node.attrs[a][2] ELSE <<>>
             values == get_enum_values(enum_node)
         IN  IF values.kind # "ok" THEN values
             ELSE enum_attribute_scan(enum_node, a + 1, insert(enums, enum_name, values.value))

RECURSIVE enum_node_scan(_, _, _)
enum_node_scan(kids, i, enums) ==
    IF i = 0 THEN Ok(enums)
    ELSE LET inserted == enum_attribute_scan(kids[i], 1, enums)
         IN  IF inserted.kind # "ok" THEN inserted
             ELSE enum_node_scan(kids, next_sibling(kids, i), inserted.value)

\* Mutant: a document without an Enums node is an error.
RECURSIVE enums_scan_requiring(_, _, _, _)
enums_scan_requiring(kids, i, enums, vis) ==
    IF i = 0
    THEN IF \E v \in DOMAIN vis : kids[vis[v]].tag = "Enums" THEN Visiting(Ok(enums), vis)
         ELSE Visiting(Err("NotFound", "Enums", ""), vis)
    ELSE LET node == kids[i]
             seen == Append(vis, i)
         IN  IF node.tag = "Enums"
             THEN LET inner == enum_node_scan(node.kids, first_node(node.kids), enums)
                  IN  IF inner.kind # "ok" THEN Visiting(inner, seen)
                      ELSE enums_scan_requiring(kids, next_sibling(kids, i), inner.value, seen)
             ELSE enums_scan_requiring(kids, next_sibling(kids, i), enums, seen)

RECURSIVE enums_scan(_, _, _, _)
enums_scan(kids, i, enums, vis) ==
    IF i = 0 THEN Visiting(Ok(enums), vis)
    ELSE LET node == kids[i]
             seen == Append(vis, i)
         IN  IF node.tag = "Enums"
             THEN LET inner == enum_node_scan(node.kids, first_node(node.kids), enums)
                  IN  IF inner.kind # "ok" THEN Visiting(inner, seen)
                      ELSE enums_scan(kids, next_sibling(kids, i), inner.value, seen)
             ELSE enums_scan(kids, next_sibling(kids, i), enums, seen)

get_enums(parser_contents) ==
    LET buffer == string_to_char_buffer(parser_contents)
        loaded == load_external_xml(buffer)
    IN  IF loaded.kind # "ok" THEN loaded
        ELSE LET document == loaded.value
                 first == get_first_node(document)
             IN  IF first.kind # "ok" THEN first
                 ELSE enums_scan(document.kids, first.value, EmptyMap, <<>>)

(***************************************************************************)
(* The schema registry, the parameter decoder and the string formatter     *)
(* (fw_string_formatter).  The class is declared in fw-string-formatter.h; *)
(* its member functions are modelled as sections 4.3 to 4.5 of the design  *)
(* describe them.  Texts are character sequences, blobs byte sequences.    *)
(***************************************************************************)
NoRegistry == [events |-> EmptyMap, enums |-> EmptyMap]

\* Built once from a parser-contents document; a document that fails to
\* load commits nothing.
BuildRegistry(parser_contents) ==
    LET events == get_events(parser_contents)
        enum_names_to_literals == get_enums(parser_contents)
    IN  IF events.kind = "ok" /\ enum_names_to_literals.kind = "ok"
        THEN [events |-> events.value, enums |-> enum_names_to_literals.value]
        ELSE NoRegistry

event_for(events, event_id) ==
    IF event_id \in DOMAIN events
    THEN Ok([argument_count |-> events[event_id][1], format |-> events[event_id][2]])
    ELSE Err("UnknownEvent", "", "")

enum_for(enum_table, enum_name) ==
    IF enum_name \in DOMAIN enum_table THEN Ok(enum_table[enum_name])
    ELSE Err("UnknownEnum", "", "")

\* The literal of the first pair, in definition order, whose value is key.
RECURSIVE first_literal(_, _, _)
first_literal(pairs, key, i) ==
    IF i > Len(pairs) THEN Err("UnknownEnumValue", "", "")
    ELSE IF pairs[i][1] = key THEN Ok(pairs[i][2])
    ELSE first_literal(pairs, key, i + 1)

\* Position of the first c in s at or after i, 0 when there is none.
RECURSIVE find_char(_, _, _)
find_char(s, c, i) ==
    IF i > Len(s) THEN 0
    ELSE IF s[i] = c THEN i
    ELSE find_char(s, c, i + 1)

TextToken(c) == [kind |-> "text", index |-> 0, enum_name |-> <<>>, text |-> <<c>>]
Placeholder(k, i, n, txt) == [kind |-> k, index |-> i, enum_name |-> n, text |-> txt]

\* The placeholder that starts at the "{" at position i: "{index}" is an
\* expression placeholder, "{index:EnumName}" an enum placeholder; anything
\* else is text.  next is the position after it, 0 when there is none.
placeholder_at(s, i) ==
    LET digits == ParseDigits(s, i + 1, 0)
        close == find_char(s, "}", digits.next)
    IN  IF digits.next = i + 1 \/ close = 0 THEN [next |-> 0, token |-> TextToken(s[i])]
        ELSE IF close = digits.next
             THEN [next |-> close + 1,
                   token |-> Placeholder("expression", digits.val, <<>>, SubSeq(s, i, close))]
        ELSE IF s[digits.next] = ":"
             THEN [next |-> close + 1,
                   token |-> Placeholder("enum", digits.val, SubSeq(s, digits.next + 1, close - 1),
                                         SubSeq(s, i, close))]
        ELSE [next |-> 0, token |-> TextToken(s[i])]

\* The template from position i on, left to right, as text and placeholders.
RECURSIVE parse_template(_, _)
parse_template(s, i) ==
    IF i > Len(s) THEN <<>>
    ELSE LET p == IF s[i] = "{" THEN placeholder_at(s, i) ELSE [next |-> 0, token |-> TextToken(s[i])]
         IN  IF p.next = 0 THEN <<p.token>> \o parse_template(s, i + 1)
             ELSE <<p.token>> \o parse_template(s, p.next)

placeholders(tokens) == SelectSeq(tokens, LAMBDA tok : tok.kind # "text")

\* Mutant: the declared argument count is not compared.
resolve_unchecked(events, event_id) ==
    LET event == event_for(events, event_id)
    IN  IF event.kind # "ok" THEN event
        ELSE Ok(parse_template(event.value.format, 1))

\* Steps 1, 2 and 5 of generate_message: the event of the frame, its
\* template parsed, and the declared argument count compared with the
\* placeholders parsed (a check of the schema, whatever the blob).
resolve(events, event_id) ==
    LET event == event_for(events, event_id)
    IN  IF event.kind # "ok" THEN event
        ELSE LET tokens == parse_template(event.value.format, 1)
             IN  IF Len(placeholders(tokens)) # event.value.argument_count
                 THEN Err("ArgumentCountMismatch", "", "")
                 ELSE Ok(tokens)

\* A parameter descriptor: byte width and interpretation.
ParamInfo(w, s) == [width |-> w, signed |-> s]

\* Mutant: the most significant byte comes first.
RECURSIVE big_endian(_)
big_endian(bytes) ==
    IF bytes = <<>> THEN 0
    ELSE bytes[Len(bytes)] + 256 * big_endian(SubSeq(bytes, 1, Len(bytes) - 1))

RECURSIVE little_endian(_)
little_endian(bytes) ==
    IF bytes = <<>> THEN 0
    ELSE bytes[1] + 256 * little_endian(Tail(bytes))

\* The fixed-width integer the bytes hold: two's complement when signed.
interpret(info, bytes) ==
    LET v == little_endian(bytes)
    IN  IF info.signed /\ v >= 2 ^ (8 * info.width - 1) THEN v - 2 ^ (8 * info.width) ELSE v

RECURSIVE digits_of(_)
digits_of(n) ==
    IF n < 10 THEN <<Digits[n + 1]>>
    ELSE digits_of(n \div 10) \o <<Digits[(n % 10) + 1]>>

\* Decimal text of an integer.
to_string(n) == IF n < 0 THEN <<"-">> \o digits_of(0 - n) ELSE digits_of(n)

convert_param_to_string(info, param_start) == to_string(interpret(info, param_start))

\* The parameter of width info.width at the cursor: its value and its text.
read_param(info, blob, cursor) ==
    IF cursor + info.width > Len(blob) THEN Err("TruncatedBlob", "", "")
    ELSE LET param_start == SubSeq(blob, cursor + 1, cursor + info.width)
         IN  Ok([key |-> interpret(info, param_start),
                 text |-> convert_param_to_string(info, param_start)])

\* Mutant: bytes after the last parameter are taken for padding.
end_of_blob_padded(blob, cursor) == Ok(cursor)

\* After the last parameter the cursor is at the end of the blob.
end_of_blob(blob, cursor) ==
    IF cursor < Len(blob) THEN Err("TrailingBytes", "", "") ELSE Ok(cursor)

\* The parameter decoder as one pass over the descriptors.
RECURSIVE decode_params(_, _, _, _)
decode_params(params_info, blob, cursor, values) ==
    IF Len(values) = Len(params_info)
    THEN LET done == end_of_blob(blob, cursor)
         IN  IF done.kind # "ok" THEN done ELSE Ok(values)
    ELSE LET info == params_info[Len(values) + 1]
             param == read_param(info, blob, cursor)
         IN  IF param.kind # "ok" THEN param
             ELSE decode_params(params_info, blob, cursor + info.width, Append(values, param.value))

\* Placeholder index -> replacement text, and index -> enum key.
exp_replace_map(values) == [i \in 0..(Len(values) - 1) |-> values[i + 1].text]
enum_replace_map(values) == [i \in 0..(Len(values) - 1) |-> values[i + 1].key]

\* Left to right: text stays, an expression placeholder becomes the text of
\* its parameter, an enum placeholder the literal paired with its key.  A
\* placeholder without a parameter has no replacement and stays as written.
RECURSIVE replace_from(_, _, _, _, _, _)
replace_from(tokens, i, exp_map, enum_map, enum_table, out) ==
    IF i > Len(tokens) THEN Ok(out)
    ELSE LET tok == tokens[i]
         IN  IF tok.kind = "text" \/ tok.index \notin DOMAIN exp_map
             THEN replace_from(tokens, i + 1, exp_map, enum_map, enum_table, out \o tok.text)
             ELSE IF tok.kind = "expression"
                  THEN replace_from(tokens, i + 1, exp_map, enum_map, enum_table,
                                    out \o exp_map[tok.index])
             ELSE LET def == enum_for(enum_table, tok.enum_name)
                      literal == first_literal(def.value, enum_map[tok.index], 1)
                  IN  IF def.kind # "ok" THEN def
                      ELSE IF literal.kind # "ok" THEN literal
                      ELSE replace_from(tokens, i + 1, exp_map, enum_map, enum_table,
                                        out \o literal.value)

replace_params(tokens, exp_map, enum_map, enum_table) ==
    replace_from(tokens, 1, exp_map, enum_map, enum_table, <<>>)

Frame(e, ps, b) == [event_id |-> e, params_info |-> ps, blob |-> b]

\* One frame decoded on its own, against a registry and an enum table.
generate_message(events, enum_table, frame) ==
    LET tokens == resolve(events, frame.event_id)
        values == decode_params(frame.params_info, frame.blob, 0, <<>>)
    IN  IF tokens.kind # "ok" THEN tokens
        ELSE IF values.kind # "ok" THEN values
        ELSE replace_params(tokens.value, exp_replace_map(values.value),
                            enum_replace_map(values.value), enum_table)

(***************************************************************************)
(* The documents explored.                                                 *)
(***************************************************************************)
DocTree(r, ks) == [kind |-> "tree", root |-> r, kids |-> ks]
DocEmpty == [kind |-> "empty", root |-> "", kids |-> <<>>]
DocBlank == [kind |-> "blank", root |-> "", kids |-> <<>>]
DocMalformed == [kind |-> "malformed", root |-> "", kids |-> <<>>]

SourceKids ==
    { Leaf("Module", <<Attr("id", <<"1">>), Attr("verbosity", <<"1">>)>>),
      Leaf("Module", <<Attr("id", <<"1">>), Attr("verbosity", <<"2">>)>>),
      Leaf("Module", <<Attr("id", <<"2">>), Attr("verbosity", <<"1">>)>>),
      Leaf("Module", <<Attr("id", <<"2">>)>>),
      Leaf("Module", <<Attr("verbosity", <<"1">>)>>),
      Leaf("Module", <<Attr("id", <<"x">>), Attr("verbosity", <<"1">>)>>),
      Leaf("File", <<Attr("Path", <<"p">>)>>),
      Leaf("File", <<Attr("Path", <<>>)>>),
      Leaf("File", <<>>) }

SourceAttrs == { <<>>, <<Attr("id", <<"1">>)>>, <<Attr("id", <<"2">>)>> }

\* The neighbours of the Source under study: a Source with id 1 and a node
\* of another tag with id 1.
Neighbours ==
    LET module == Leaf("Module", <<Attr("id", <<"2">>), Attr("verbosity", <<"2">>)>>)
        file == Leaf("File", <<Attr("Path", <<"q">>)>>)
    IN  { Node("Source", <<Attr("id", <<"1">>)>>, <<module, file>>),
          Leaf("Module", <<Attr("id", <<"1">>)>>) }

InsertAt(q, p, x) == SubSeq(q, 1, p - 1) \o <<x>> \o SubSeq(q, p, Len(q))

\* Documents without a usable root, whatever their type.
OtherDocs ==
    { DocEmpty, DocBlank, DocMalformed }
        \cup { DocTree(r, ks) : r \in {"format", "Formats", "Source"},
                                ks \in { <<>>, <<Node("Source", <<Attr("id", <<"1">>)>>, <<>>)>>,
                                         <<Leaf("Event", <<Attr("id", <<"1">>)>>)>> } }

\* A definitions document: one Source under study (any attributes, up to
\* MaxKids children) at any position among up to MaxSources root-level nodes.
IsDefinitionsDoc(doc) ==
    \/ doc \in OtherDocs \cup { DocTree("Format", <<>>) }
    \/ \E a \in SourceAttrs, n \in 0..MaxKids, m \in 0..(MaxSources - 1) :
           \E ks \in [1..n -> SourceKids], q \in [1..m -> Neighbours], p \in 1..(m + 1) :
               doc = DocTree("Format", InsertAt(q, p, Node("Source", a, ks)))

TopParserContents ==
    { Leaf("Event", <<Attr("id", <<"1">>), Attr("numberOfArguments", <<"1">>), Attr("format", <<"a">>)>>),
      Leaf("Event", <<Attr("id", <<"1">>), Attr("numberOfArguments", <<"2">>), Attr("format", <<"b">>)>>),
      Leaf("Event", <<Attr("id", <<"2">>), Attr("numberOfArguments", <<"0">>), Attr("format", <<"a">>)>>),
      Leaf("Event", <<Attr("id", <<"2">>), Attr("format", <<"a">>)>>),
      Leaf("Event", <<Attr("id", <<"2">>), Attr("numberOfArguments", <<"1">>)>>),
      Leaf("Event", <<Attr("numberOfArguments", <<"1">>), Attr("format", <<"a">>)>>),
      Leaf("Event", <<Attr("id", <<"2">>), Attr("numberOfArguments", <<"-", "1">>), Attr("format", <<"a">>)>>),
      Leaf("Event", <<Attr("id", <<"2">>), Attr("numberOfArguments", <<"1">>), Attr("format", <<>>)>>),
      Leaf("Event", <<Attr("id", <<"x">>), Attr("numberOfArguments", <<"1">>), Attr("format", <<"a">>)>>),
      Leaf("File", <<Attr("id", <<"1">>), Attr("Name", <<"a">>)>>),
      Leaf("File", <<Attr("id", <<"1">>), Attr("Name", <<"b">>)>>),
      Leaf("Module", <<Attr("id", <<"1">>), Attr("Name", <<"m">>)>>),
      Leaf("Thread", <<Attr("Name", <<"t">>), Attr("id", <<"2">>)>>),
      Leaf("File", <<Attr("id", <<"2">>)>>),
      Leaf("Thread", <<Attr("Name", <<"t">>)>>) }

ParserContentsDocs ==
    { DocTree("Format", ks) : ks \in SeqsUpTo(TopParserContents, MaxTopNodes) } \cup OtherDocs

EnumValueLists ==
    LET on == Leaf("EnumValue", <<Attr("Key", <<"1">>), Attr("Value", <<"O", "N">>)>>)
        off == Leaf("EnumValue", <<Attr("Key", <<"1">>), Attr("Value", <<"O", "F", "F">>)>>)
        no_key == Leaf("EnumValue", <<Attr("Value", <<"O", "N">>)>>)
        no_value == Leaf("EnumValue", <<Attr("Key", <<"0">>)>>)
    IN  { <<>>, <<on>>, <<off>>, <<on, off>>, <<on, no_key>>, <<no_value>> }

EnumGroupAttrs ==
    { <<>>,
      <<Attr("Name", <<"A">>)>>,
      <<Attr("Name", <<"B">>)>>,
      <<Attr("Name", <<>>)>>,
      <<Attr("Type", <<"t">>)>>,
      <<Attr("Type", <<"t">>), Attr("Name", <<"A">>)>> }

EnumGroups == { Node("Enum", a, ks) : a \in EnumGroupAttrs, ks \in EnumValueLists }

EnumsDocs ==
    { DocTree("Format", <<Node("Enums", <<>>, gs)>>) : gs \in SeqsUpTo(EnumGroups, MaxGroups) }
        \cup { DocTree("Format", <<>>),
               DocTree("Format", <<Leaf("File", <<Attr("id", <<"1">>), Attr("Name", <<"a">>)>>)>>) }
        \cup OtherDocs

SourceIds == {1, 2}

(***************************************************************************)
(* The calls.  The helper keeps no state: a call reads the document string *)
(* it is given and leaves an outcome.                                      *)
(***************************************************************************)
Returns(name, args, outcome) ==
    /\ call' = [name |-> name, args |-> args]
    /\ result' \in Outcomes(outcome)
    /\ UNCHANGED <<xml_content, formatter_vars, broadcast_vars, handler_vars>>

GetSourceParserFilePath ==
    \E id \in SourceIds :
        Returns("get_source_parser_file_path", <<id>>, get_source_parser_file_path(id, xml_content))

GetSourceModuleVerbosity ==
    \E id \in SourceIds :
        Returns("get_source_module_verbosity", <<id>>, get_source_module_verbosity(id, xml_content))

GetEvents == Returns("get_events", <<>>, get_events(xml_content))
GetFiles == Returns("get_files", <<>>, get_files(xml_content))
GetModules == Returns("get_modules", <<>>, get_modules(xml_content))
GetThreads == Returns("get_threads", <<>>, get_threads(xml_content))
GetEnums == Returns("get_enums", <<>>, get_enums(xml_content))

Next ==
    \/ GetSourceParserFilePath
    \/ GetSourceModuleVerbosity
    \/ GetEvents
    \/ GetFiles
    \/ GetModules
    \/ GetThreads
    \/ GetEnums

NoCall == [name |-> "none", args |-> <<>>]

\* No call made yet.
NoLoaderCall ==
    /\ call = NoCall
    /\ result = NoResult

\* No registry built, no formatter and no decoding thread.
NoFormatter ==
    /\ registry = NoRegistry
    /\ formatter = [enums |-> EmptyMap]
    /\ decoder = <<>>
    /\ stream = "none"

\* No broadcast manager: no thread, no broadcaster, nothing triggered.
NoThread == [pc |-> "none", last |-> 0]

NoBroadcastManager ==
    /\ _stopped = FALSE
    /\ _ready_for_broadcast = FALSE
    /\ _broadcasters = {}
    /\ _broadcasters_mutex = "free"
    /\ _th = NoThread
    /\ broadcaster = <<>>
    /\ gathered = [before_reset |-> 0, after_reset |-> 0, tracked |-> "off"]
    /\ called = [registered |-> {}, times |-> <<>>, after_stop |-> 0]

\* No calibration handler: no device, no call.
NoAnswer ==
    [call |-> "none", kind |-> "none", value |-> <<>>, error |-> "",
     sent |-> <<>>, response |-> <<>>, beyond |-> FALSE]

NoHandler ==
    /\ _dev = "null"
    /\ device = [table |-> <<>>]
    /\ answer = NoAnswer

InitCall == NoLoaderCall /\ NoFormatter /\ NoBroadcastManager /\ NoHandler

InitDefinitions == IsDefinitionsDoc(xml_content) /\ InitCall
InitParserContents == xml_content \in ParserContentsDocs /\ InitCall
InitEnums == xml_content \in EnumsDocs /\ InitCall

SpecDefinitions == InitDefinitions /\ [][Next]_vars
SpecParserContents == InitParserContents /\ [][Next]_vars
SpecEnums == InitEnums /\ [][Next]_vars

(***************************************************************************)
(* Decoding frames.  A session builds the registry and the formatter once, *)
(* from a parser-contents document; then each decoding thread takes frames *)
(* from the stream, one at a time: the event is resolved and its template  *)
(* parsed, the parameters are read at the cursor one by one, the message   *)
(* is substituted and handed to the caller.                                *)
(***************************************************************************)
MaxParams == 2
MaxThreads == 2

PowerEnum == <<"P", "o", "w", "e", "r", "E", "n", "u", "m">>
Dup == <<"D">>

RegistryEvents ==
    << Leaf("Event", <<Attr("id", <<"1">>), Attr("numberOfArguments", <<"2">>),
                       Attr("format", <<"p", "o", "w", "e", "r", "=", "{", "0", "}", " ", "s", "t", "a", "t", "e", "=", "{", "1", ":", "P", "o", "w", "e", "r", "E", "n", "u", "m", "}">>)>>),
       Leaf("Event", <<Attr("id", <<"2">>), Attr("numberOfArguments", <<"1">>),
                       Attr("format", <<"{", "0", ":", "D", "}">>)>>),
       Leaf("Event", <<Attr("id", <<"3">>), Attr("numberOfArguments", <<"1">>),
                       Attr("format", <<"a", "{", "0", "}">>)>>),
       Leaf("Event", <<Attr("id", <<"4">>), Attr("numberOfArguments", <<"1">>),
                       Attr("format", <<"{", "0", ":", "N", "}", "x">>)>>),
       Leaf("Event", <<Attr("id", <<"5">>), Attr("numberOfArguments", <<"1">>),
                       Attr("format", <<"x">>)>>) >>

RegistryEnums ==
    Node("Enums", <<>>,
         << Node("Enum", <<Attr("Name", PowerEnum)>>,
                 << Leaf("EnumValue", <<Attr("Key", <<"1">>), Attr("Value", <<"O", "N">>)>>),
                    Leaf("EnumValue", <<Attr("Key", <<"0">>), Attr("Value", <<"O", "F", "F">>)>>) >>),
            Node("Enum", <<Attr("Name", Dup)>>,
                 << Leaf("EnumValue", <<Attr("Key", <<"0">>), Attr("Value", <<"A">>)>>),
                    Leaf("EnumValue", <<Attr("Key", <<"4", "2">>), Attr("Value", <<"B">>)>>),
                    Leaf("EnumValue", <<Attr("Key", <<"0">>), Attr("Value", <<"C">>)>>),
                    Leaf("EnumValue", <<Attr("Key", <<"4", "2">>), Attr("Value", <<"D">>)>>) >>) >>)

\* Parser-contents documents a session is built from: events and enums,
\* the same events without an Enums node, and a document that fails to load.
RegistryDocs ==
    { DocTree("Format", RegistryEvents \o <<RegistryEnums>>),
      DocTree("Format", RegistryEvents),
      DocTree("Format", <<Leaf("Event", <<Attr("id", <<"1">>), Attr("numberOfArguments", <<"0">>)>>)>>) }

EventIds == {1, 2, 3, 4, 5, 9}
Bytes == {0, 42}
ParamInfos == { ParamInfo(1, FALSE), ParamInfo(2, FALSE) }
int8 == ParamInfo(1, TRUE)

RECURSIVE TotalWidth(_)
TotalWidth(ps) == IF ps = <<>> THEN 0 ELSE Head(ps).width + TotalWidth(Tail(ps))

\* Every event id with every descriptor sequence and every blob that is not
\* longer than the declared widths by more than one byte.
UnsignedFrames ==
    UNION { { Frame(e, ps, b) : e \in EventIds, b \in SeqsUpTo(Bytes, TotalWidth(ps) + 1) } :
            ps \in SeqsUpTo(ParamInfos, MaxParams) }

\* Frames with one signed byte.
SignedFrames == { Frame(e, <<int8>>, <<b>>) : e \in EventIds, b \in {0, 127, 128, 255} }

Frames == UnsignedFrames \cup SignedFrames

\* A few frames: decoded, truncated, with an enum the table does not have,
\* of an unknown event.
SampleFrames ==
    LET u16_u8 == <<ParamInfo(2, FALSE), ParamInfo(1, FALSE)>>
    IN  { Frame(1, u16_u8, <<42, 0, 0>>), Frame(1, u16_u8, <<42, 0>>),
          Frame(4, <<ParamInfo(1, FALSE)>>, <<0>>), Frame(9, <<>>, <<>>) }

FramesOf(s) == IF s = "any" THEN Frames ELSE SampleFrames

NoFrame == Frame(0, <<>>, <<>>)
\* A thread's decoder; after_failure tells that the frame before failed.
Idle == [pc |-> "idle", frame |-> NoFrame, tokens |-> <<>>, cursor |-> 0, values |-> <<>>,
         message |-> NoResult, after_failure |-> FALSE]

Done(d, outcome) == [d EXCEPT !.pc = "done", !.message = outcome]

\* Mutant: the cursor is left where the frame before ended.
Begin_keeping_cursor(t, frame) ==
    /\ decoder[t].pc = "idle"
    /\ decoder' = [decoder EXCEPT ![t] =
                      [@ EXCEPT !.pc = "resolving", !.frame = frame, !.values = <<>>]]
    /\ UNCHANGED <<loader_vars, broadcast_vars, handler_vars, registry, formatter, stream>>

\* generate_message is entered with a frame: cursor at 0, no value decoded.
Begin(t, frame) ==
    /\ decoder[t].pc = "idle"
    /\ decoder' = [decoder EXCEPT ![t] =
                      [@ EXCEPT !.pc = "resolving", !.frame = frame, !.cursor = 0, !.values = <<>>]]
    /\ UNCHANGED <<loader_vars, broadcast_vars, handler_vars, registry, formatter, stream>>

\* The event of the frame is resolved and its template parsed.
Resolve(t) ==
    /\ decoder[t].pc = "resolving"
    /\ LET tokens == resolve(registry.events, decoder[t].frame.event_id)
       IN  decoder' = [decoder EXCEPT ![t] =
                          IF tokens.kind # "ok" THEN Done(@, tokens)
                          ELSE [@ EXCEPT !.pc = "decoding", !.tokens = tokens.value]]
    /\ UNCHANGED <<loader_vars, broadcast_vars, handler_vars, registry, formatter, stream>>

\* The next parameter is read at the cursor.
ReadParam(t) ==
    /\ decoder[t].pc = "decoding"
    /\ Len(decoder[t].values) < Len(decoder[t].frame.params_info)
    /\ LET d == decoder[t]
           info == d.frame.params_info[Len(d.values) + 1]
           param == read_param(info, d.frame.blob, d.cursor)
       IN  decoder' = [decoder EXCEPT ![t] =
                          IF param.kind # "ok" THEN Done(d, param)
                          ELSE [d EXCEPT !.cursor = d.cursor + info.width,
                                         !.values = Append(d.values, param.value)]]
    /\ UNCHANGED <<loader_vars, broadcast_vars, handler_vars, registry, formatter, stream>>

\* The enum table after [] was used on it for every enum the tokens name.
RECURSIVE with_defaults(_, _, _)
with_defaults(enum_table, tokens, i) ==
    IF i > Len(tokens) THEN enum_table
    ELSE with_defaults(IF tokens[i].kind = "enum" THEN insert(enum_table, tokens[i].enum_name, <<>>)
                       ELSE enum_table,
                       tokens, i + 1)

Substituted(d) ==
    LET done == end_of_blob(d.frame.blob, d.cursor)
    IN  IF done.kind # "ok" THEN Done(d, done)
        ELSE Done(d, replace_params(d.tokens, exp_replace_map(d.values),
                                    enum_replace_map(d.values), formatter.enums))

\* Mutant: the enum of a placeholder is looked up with [], which adds an
\* empty entry for a name the table does not have.
Finish_inserting(t) ==
    /\ decoder[t].pc = "decoding"
    /\ Len(decoder[t].values) = Len(decoder[t].frame.params_info)
    /\ decoder' = [decoder EXCEPT ![t] = Substituted(decoder[t])]
    /\ formatter' = [enums |-> with_defaults(formatter.enums, decoder[t].tokens, 1)]
    /\ UNCHANGED <<loader_vars, broadcast_vars, handler_vars, registry, stream>>

\* All parameters read: the blob must be used up, then the placeholders are
\* substituted.
Finish(t) ==
    /\ decoder[t].pc = "decoding"
    /\ Len(decoder[t].values) = Len(decoder[t].frame.params_info)
    /\ decoder' = [decoder EXCEPT ![t] = Substituted(decoder[t])]
    /\ UNCHANGED <<loader_vars, broadcast_vars, handler_vars, registry, formatter, stream>>

\* The message (or the error) goes to the caller.
Return(t) ==
    /\ decoder[t].pc = "done"
    /\ decoder' = [decoder EXCEPT ![t] =
                      [Idle EXCEPT !.cursor = decoder[t].cursor,
                                   !.after_failure = (decoder[t].message.kind # "ok")]]
    /\ UNCHANGED <<loader_vars, broadcast_vars, handler_vars, registry, formatter, stream>>

\* An idle thread takes any frame of the stream.
TakeFrame(t) ==
    /\ decoder[t].pc = "idle"
    /\ \E frame \in FramesOf(stream) : Begin(t, frame)

NextFormatter ==
    \E t \in DOMAIN decoder :
        \/ TakeFrame(t)
        \/ Resolve(t)
        \/ ReadParam(t)
        \/ Finish(t)
        \/ Return(t)

InitSession(threads, s) ==
    /\ xml_content \in RegistryDocs
    /\ NoLoaderCall
    /\ registry = BuildRegistry(xml_content)
    /\ formatter = [enums |-> registry.enums]
    /\ decoder = [t \in threads |-> Idle]
    /\ stream = s
    /\ NoBroadcastManager
    /\ NoHandler

\* One thread decoding any frames.
SpecFormatter == InitSession({1}, "any") /\ [][NextFormatter]_vars
\* Several threads decoding the frames of a stream.
SpecReaders == InitSession(1..MaxThreads, "sample") /\ [][NextFormatter]_vars

(***************************************************************************)
(* The broadcast manager (realdds, detail::broadcast_manager) and the      *)
(* device broadcasters that register with it.  Three kinds of threads      *)
(* meet here: the manager's own thread _th, the participant thread that    *)
(* delivers on_publication_matched, and the threads that construct and     *)
(* destroy dds_device_broadcaster objects.                                 *)
(*                                                                         *)
(* Two variables are history, not program state: gathered counts the       *)
(* positive publication-matched events (those that arrived between the     *)
(* thread's latest wake-up and its reset, and those that arrived after the *)
(* latest reset) and, where asked to, follows one event, any one, from its *)
(* arrival to the end of the first round that began after it; called       *)
(* holds, for the                                                          *)
(* latest round, the set registered when the round took the mutex and how  *)
(* often the thread called broadcast() on each broadcaster, and the number *)
(* of rounds begun since the manager was stopped.                          *)
(***************************************************************************)
MaxBroadcasters == 2
MaxTriggers == 2

Broadcasters == 1..MaxBroadcasters

\* The owner of _broadcasters_mutex.
Free == "free"
ByThread == "thread"
ByBroadcaster == "broadcaster"

\* A dds_device_broadcaster: how far its constructor or destructor is, and
\* whether its _writer member has been assigned.
NotConstructed == [pc |-> "none", _writer |-> FALSE]

\* The process is gone once a null _writer has been dereferenced and the
\* build's outcome was a crash.
Alive == _th.pc # "crashed"

\* The manager exists from its constructor until its destructor has joined.
ManagerExists == _th.pc \notin {"none", "joined"}

\* on_publication_matched, called from the participant thread.
OnPublicationMatched(current_count_change) ==
    /\ Alive /\ ManagerExists
    /\ gathered.before_reset < MaxTriggers
    /\ gathered.after_reset < MaxTriggers
    /\ IF current_count_change > 0
         THEN /\ _ready_for_broadcast' = TRUE
              /\ \E follow \in BOOLEAN :
                    gathered' =
                      [before_reset |->
                          IF _th.pc \in {"woken", "sleep", "reset"}
                            THEN gathered.before_reset + 1 ELSE gathered.before_reset,
                       after_reset |->
                          IF _th.pc \in {"woken", "sleep", "reset"}
                            THEN gathered.after_reset ELSE gathered.after_reset + 1,
                       tracked |->
                          IF follow /\ gathered.tracked \in {"none", "covered"}
                            THEN "event" ELSE gathered.tracked]
         ELSE UNCHANGED <<_ready_for_broadcast, gathered>>
    /\ UNCHANGED <<_stopped, _broadcasters, _broadcasters_mutex, _th, broadcaster, called>>
    /\ UNCHANGED <<loader_vars, formatter_vars, handler_vars>>

\* while( ! _stopped.get_trigger_value() )
While ==
    /\ _th.pc = "while"
    /\ _th' = [_th EXCEPT !.pc = IF _stopped THEN "exited" ELSE "wait"]
    /\ UNCHANGED <<_stopped, _ready_for_broadcast, _broadcasters, _broadcasters_mutex,
                   broadcaster, gathered, called>>
    /\ UNCHANGED <<loader_vars, formatter_vars, handler_vars>>

\* A wait set that holds the ready condition only.
Wait_ready_only ==
    /\ _th.pc = "wait"
    /\ _ready_for_broadcast
    /\ _th' = [_th EXCEPT !.pc = "woken"]
    /\ gathered' = [gathered EXCEPT !.before_reset = 0]
    /\ UNCHANGED <<_stopped, _ready_for_broadcast, _broadcasters, _broadcasters_mutex,
                   broadcaster, called>>
    /\ UNCHANGED <<loader_vars, formatter_vars, handler_vars>>

\* wait_set.wait returns when one of the two attached conditions is set.
Wait ==
    /\ _th.pc = "wait"
    /\ _ready_for_broadcast \/ _stopped
    /\ _th' = [_th EXCEPT !.pc = "woken"]
    /\ gathered' = [gathered EXCEPT !.before_reset = 0]
    /\ UNCHANGED <<_stopped, _ready_for_broadcast, _broadcasters, _broadcasters_mutex,
                   broadcaster, called>>
    /\ UNCHANGED <<loader_vars, formatter_vars, handler_vars>>

\* if( _stopped.get_trigger_value() ) break;
CheckStopped ==
    /\ _th.pc = "woken"
    /\ _th' = [_th EXCEPT !.pc = IF _stopped THEN "exited" ELSE "sleep"]
    /\ UNCHANGED <<_stopped, _ready_for_broadcast, _broadcasters, _broadcasters_mutex,
                   broadcaster, gathered, called>>
    /\ UNCHANGED <<loader_vars, formatter_vars, handler_vars>>

\* std::this_thread::sleep_for: the delay that lets triggers gather.
Sleep ==
    /\ _th.pc = "sleep"
    /\ _th' = [_th EXCEPT !.pc = "reset"]
    /\ UNCHANGED <<_stopped, _ready_for_broadcast, _broadcasters, _broadcasters_mutex,
                   broadcaster, gathered, called>>
    /\ UNCHANGED <<loader_vars, formatter_vars, handler_vars>>

\* A reset that leaves the condition set.
ResetReady_skipped ==
    /\ _th.pc = "reset"
    /\ UNCHANGED _ready_for_broadcast
    /\ gathered' = [gathered EXCEPT !.after_reset = 0]
    /\ _th' = [_th EXCEPT !.pc = "lock"]
    /\ UNCHANGED <<_stopped, _broadcasters, _broadcasters_mutex, broadcaster, called>>
    /\ UNCHANGED <<loader_vars, formatter_vars, handler_vars>>

\* _ready_for_broadcast.set_trigger_value( false )
ResetReady ==
    /\ _th.pc = "reset"
    /\ _ready_for_broadcast' = FALSE
    /\ gathered' = [gathered EXCEPT !.after_reset = 0]
    /\ _th' = [_th EXCEPT !.pc = "lock"]
    /\ UNCHANGED <<_stopped, _broadcasters, _broadcasters_mutex, broadcaster, called>>
    /\ UNCHANGED <<loader_vars, formatter_vars, handler_vars>>

\* std::lock_guard lock( _broadcasters_mutex ): a round begins.
Lock ==
    /\ _th.pc = "lock"
    /\ _broadcasters_mutex = Free
    /\ _broadcasters_mutex' = ByThread
    /\ _th' = [_th EXCEPT !.pc = "loop", !.last = 0]
    /\ called' = [registered |-> _broadcasters,
                  times |-> [b \in Broadcasters |-> 0],
                  after_stop |-> IF _stopped THEN called.after_stop + 1 ELSE 0]
    /\ gathered' = [gathered EXCEPT !.tracked = IF @ = "event" THEN "round" ELSE @]
    /\ UNCHANGED <<_stopped, _ready_for_broadcast, _broadcasters, broadcaster>>
    /\ UNCHANGED <<loader_vars, formatter_vars, handler_vars>>

\* The elements of the std::set the range-for has not visited yet; the set
\* is iterated in increasing order.
remaining(last) == { b \in _broadcasters : b > last }

next_broadcaster(last) ==
    CHOOSE b \in remaining(last) : \A c \in remaining(last) : b <= c

\* broadcaster->broadcast() from the manager's thread: the call is made on
\* the next element of the set.
Broadcast ==
    /\ _th.pc = "loop"
    /\ remaining(_th.last) # {}
    /\ LET b == next_broadcaster(_th.last) IN
        /\ called' = [called EXCEPT !.times[b] = @ + 1]
        /\ _th' = [_th EXCEPT !.pc = "broadcast", !.last = b]
    /\ UNCHANGED <<_stopped, _ready_for_broadcast, _broadcasters, _broadcasters_mutex,
                   broadcaster, gathered>>
    /\ UNCHANGED <<loader_vars, formatter_vars, handler_vars>>

\* dds_device_broadcaster::broadcast, msg.write_to( *_writer ), and the
\* return to the range-for.  With _writer assigned a message is written (an
\* exception is caught and logged inside broadcast()).  With _writer still
\* null, *_writer is undefined: the process crashes, or the call comes
\* back.
BroadcastReturn ==
    /\ _th.pc = "broadcast"
    /\ \/ _th' = [_th EXCEPT !.pc = "loop"]
       \/ /\ ~broadcaster[_th.last]._writer
          /\ _th' = [_th EXCEPT !.pc = "crashed"]
    /\ UNCHANGED <<_stopped, _ready_for_broadcast, _broadcasters, _broadcasters_mutex,
                   broadcaster, gathered, called>>
    /\ UNCHANGED <<loader_vars, formatter_vars, handler_vars>>

\* The range-for is over.
EndLoop ==
    /\ _th.pc = "loop"
    /\ remaining(_th.last) = {}
    /\ _th' = [_th EXCEPT !.pc = "unlock"]
    /\ gathered' =
          [gathered EXCEPT !.tracked =
              IF @ # "round" THEN @
              ELSE IF \A b \in called.registered : called.times[b] = 1
                     THEN "covered" ELSE "missed"]
    /\ UNCHANGED <<_stopped, _ready_for_broadcast, _broadcasters, _broadcasters_mutex,
                   broadcaster, called>>
    /\ UNCHANGED <<loader_vars, formatter_vars, handler_vars>>

\* The lock_guard goes out of scope at the end of the loop body.
Unlock ==
    /\ _th.pc = "unlock"
    /\ _broadcasters_mutex' = Free
    /\ _th' = [_th EXCEPT !.pc = "while"]
    /\ UNCHANGED <<_stopped, _ready_for_broadcast, _broadcasters, broadcaster,
                   gathered, called>>
    /\ UNCHANGED <<loader_vars, formatter_vars, handler_vars>>

\* dds_device_broadcaster constructor up to the call of
\* register_broadcaster, and that function up to its lock: the
\* broadcaster's writer is made and run.
Construct(b) ==
    /\ Alive /\ ManagerExists /\ ~_stopped
    /\ broadcaster[b].pc \in {"none", "destroyed"}
    /\ broadcaster' = [broadcaster EXCEPT ![b] = [pc |-> "registering", _writer |-> FALSE]]
    /\ UNCHANGED <<_stopped, _ready_for_broadcast, _broadcasters, _broadcasters_mutex,
                   _th, gathered, called>>
    /\ UNCHANGED <<loader_vars, formatter_vars, handler_vars>>

\* register_broadcaster: the lock_guard.
RegisterLock(b) ==
    /\ Alive
    /\ broadcaster[b].pc = "registering"
    /\ _broadcasters_mutex = Free
    /\ _broadcasters_mutex' = ByBroadcaster
    /\ broadcaster' = [broadcaster EXCEPT ![b].pc = "inserting"]
    /\ UNCHANGED <<_stopped, _ready_for_broadcast, _broadcasters, _th, gathered, called>>
    /\ UNCHANGED <<loader_vars, formatter_vars, handler_vars>>

\* register_broadcaster: _broadcasters.insert( broadcaster ), end of the
\* locked block.
RegisterInsert(b) ==
    /\ Alive
    /\ broadcaster[b].pc = "inserting"
    /\ _broadcasters' = _broadcasters \cup {b}
    /\ _broadcasters_mutex' = Free
    /\ broadcaster' = [broadcaster EXCEPT ![b].pc = "registered"]
    /\ UNCHANGED <<_stopped, _ready_for_broadcast, _th, gathered, called>>
    /\ UNCHANGED <<loader_vars, formatter_vars, handler_vars>>

\* _writer = _manager->register_broadcaster( this ): the returned writer is
\* assigned to the member.
AssignWriter(b) ==
    /\ Alive
    /\ broadcaster[b].pc = "registered"
    /\ broadcaster' = [broadcaster EXCEPT ![b] = [pc |-> "assigned", _writer |-> TRUE]]
    /\ UNCHANGED <<_stopped, _ready_for_broadcast, _broadcasters, _broadcasters_mutex,
                   _th, gathered, called>>
    /\ UNCHANGED <<loader_vars, formatter_vars, handler_vars>>

\* The constructor's own broadcast(), on the constructing thread.
FirstBroadcast(b) ==
    /\ Alive
    /\ broadcaster[b].pc = "assigned"
    /\ broadcaster' = [broadcaster EXCEPT ![b].pc = "live"]
    /\ UNCHANGED <<_stopped, _ready_for_broadcast, _broadcasters, _broadcasters_mutex,
                   _th, gathered, called>>
    /\ UNCHANGED <<loader_vars, formatter_vars, handler_vars>>

\* An unregistration that does not wait for the mutex.
UnregisterLock_unguarded(b) ==
    /\ Alive
    /\ broadcaster[b].pc = "live"
    /\ _broadcasters_mutex' = ByBroadcaster
    /\ broadcaster' = [broadcaster EXCEPT ![b].pc = "erasing"]
    /\ UNCHANGED <<_stopped, _ready_for_broadcast, _broadcasters, _th, gathered, called>>
    /\ UNCHANGED <<loader_vars, formatter_vars, handler_vars>>

\* ~dds_device_broadcaster, unregister_broadcaster: the lock_guard.
UnregisterLock(b) ==
    /\ Alive
    /\ broadcaster[b].pc = "live"
    /\ _broadcasters_mutex = Free
    /\ _broadcasters_mutex' = ByBroadcaster
    /\ broadcaster' = [broadcaster EXCEPT ![b].pc = "erasing"]
    /\ UNCHANGED <<_stopped, _ready_for_broadcast, _broadcasters, _th, gathered, called>>
    /\ UNCHANGED <<loader_vars, formatter_vars, handler_vars>>

\* unregister_broadcaster: _broadcasters.erase( broadcaster ) and return;
\* the members, _writer among them, are destroyed after the body.
UnregisterErase(b) ==
    /\ Alive
    /\ broadcaster[b].pc = "erasing"
    /\ _broadcasters' = _broadcasters \ {b}
    /\ _broadcasters_mutex' = Free
    /\ broadcaster' = [broadcaster EXCEPT ![b] = [pc |-> "destroyed", _writer |-> FALSE]]
    /\ UNCHANGED <<_stopped, _ready_for_broadcast, _th, gathered, called>>
    /\ UNCHANGED <<loader_vars, formatter_vars, handler_vars>>

\* No broadcaster holds the manager any more: the singleton is released.
Released ==
    /\ \A b \in Broadcasters : broadcaster[b].pc \in {"none", "destroyed"}
    /\ \E b \in Broadcasters : broadcaster[b].pc = "destroyed"

\* ~broadcast_manager: _stopped.set_trigger_value( true )
Stop ==
    /\ Alive /\ ManagerExists
    /\ Released
    /\ ~_stopped
    /\ _stopped' = TRUE
    /\ UNCHANGED <<_ready_for_broadcast, _broadcasters, _broadcasters_mutex, _th,
                   broadcaster, gathered, called>>
    /\ UNCHANGED <<loader_vars, formatter_vars, handler_vars>>

\* ~broadcast_manager: _th.join() returns once the thread's function has.
Join ==
    /\ _stopped
    /\ _th.pc = "exited"
    /\ _th' = [_th EXCEPT !.pc = "joined"]
    /\ UNCHANGED <<_stopped, _ready_for_broadcast, _broadcasters, _broadcasters_mutex,
                   broadcaster, gathered, called>>
    /\ UNCHANGED <<loader_vars, formatter_vars, handler_vars>>

CountChanges == {-1, 1}

NextBroadcast ==
    \/ \E current_count_change \in CountChanges : OnPublicationMatched(current_count_change)
    \/ While
    \/ Wait
    \/ CheckStopped
    \/ Sleep
    \/ ResetReady
    \/ Lock
    \/ Broadcast
    \/ BroadcastReturn
    \/ EndLoop
    \/ Unlock
    \/ \E b \in Broadcasters :
        \/ Construct(b)
        \/ RegisterLock(b)
        \/ RegisterInsert(b)
        \/ AssignWriter(b)
        \/ FirstBroadcast(b)
        \/ UnregisterLock(b)
        \/ UnregisterErase(b)
    \/ Stop
    \/ Join

\* The manager as its constructor leaves it: the writer for the status
\* notifications runs, the thread has started, nobody has registered.
\* tracked is "none" where an event is to be followed, "off" where not.
InitManager(tracked) ==
    /\ xml_content = DocTree("Format", <<>>)
    /\ NoLoaderCall
    /\ NoFormatter
    /\ NoHandler
    /\ _stopped = FALSE
    /\ _ready_for_broadcast = FALSE
    /\ _broadcasters = {}
    /\ _broadcasters_mutex = Free
    /\ _th = [pc |-> "while", last |-> 0]
    /\ broadcaster = [b \in Broadcasters |-> NotConstructed]
    /\ gathered = [before_reset |-> 0, after_reset |-> 0, tracked |-> tracked]
    /\ called = [registered |-> {}, times |-> [b \in Broadcasters |-> 0], after_stop |-> 0]

InitBroadcast == InitManager("off")
InitFollowing == InitManager("none")

SpecBroadcast == InitBroadcast /\ [][NextBroadcast]_vars

\* The steps of the manager's thread that need nothing from another thread.
ThreadStep ==
    \/ While
    \/ Wait
    \/ CheckStopped
    \/ Sleep
    \/ ResetReady
    \/ Broadcast
    \/ BroadcastReturn
    \/ EndLoop
    \/ Unlock

\* Scheduling: a thread that can run does run; a thread inside a locked
\* block leaves it; the manager's thread, asking for the mutex again and
\* again, gets it; a join returns once the thread has ended.  Nothing is
\* assumed about when events arrive or when broadcasters are constructed
\* and destroyed.
Scheduling ==
    /\ WF_vars(ThreadStep)
    /\ SF_vars(Lock)
    /\ \A b \in Broadcasters : WF_vars(RegisterInsert(b) \/ UnregisterErase(b))
    /\ WF_vars(Join)

SpecBroadcastLive == InitBroadcast /\ [][NextBroadcast]_vars /\ Scheduling
\* The same, with one event followed to its round.
SpecBroadcastFollowing == InitFollowing /\ [][NextBroadcast]_vars /\ Scheduling

(***************************************************************************)
(* The D500 auto-calibration handler (d500_auto_calibrated_handler).  The  *)
(* handler keeps one member, _dev; each of its methods builds a command,   *)
(* sends it with send_receive_raw_data and reads the raw response.  The    *)
(* device is the other side: it keeps the calibration-config table it was  *)
(* sent, and its raw responses begin with the 4-byte opcode.  Vectors are  *)
(* sequences of bytes.                                                     *)
(*                                                                         *)
(* answer is the outcome of the latest call: what it returned or threw,    *)
(* the commands it sent, the response it got, and whether it touched bytes *)
(* outside that response.                                                  *)
(***************************************************************************)
\* sizeof( rs2_calibration_config ), kept small.
MaxConfigSize == 2

OpcodeSize == 4
sizeof_d500_coefficients_table == 512
sizeof_d500_calibration_answer == 515
sizeof_rs2_calibration_config_header == 16
RS2_D500_CALIBRATION_STATE_COMPLETE == 5
calib_cfg_id == 49373

sizeof_rs2_calibration_config == MaxConfigSize
sizeof_rs2_calibration_config_with_header ==
    sizeof_rs2_calibration_config_header + sizeof_rs2_calibration_config

Zeros(n) == [i \in 1..n |-> 0]

RECURSIVE power(_, _)
power(b, e) == IF e = 0 THEN 1 ELSE b * power(b, e - 1)

\* The n bytes of an unsigned integer in memory, least significant first.
to_bytes(v, n) == [i \in 1..n |-> (v \div power(256, i - 1)) % 256]

RECURSIVE xor(_, _)
xor(a, b) ==
    IF a = 0 THEN b
    ELSE IF b = 0 THEN a
    ELSE 2 * xor(a \div 2, b \div 2) + ((a + b) % 2)

\* CRC-32 (reflected polynomial EDB88320, initial value and final xor
\* FFFFFFFF).  A 32-bit value is a pair <<high half, low half>>.
crc_polynomial == <<60856, 33568>>
crc_ones == <<65535, 65535>>

crc_xor(c, d) == <<xor(c[1], d[1]), xor(c[2], d[2])>>

crc_shift(c) ==
    LET shifted == <<c[1] \div 2, (c[2] \div 2) + (c[1] % 2) * 32768>>
    IN  IF c[2] % 2 = 1 THEN crc_xor(shifted, crc_polynomial) ELSE shifted

RECURSIVE crc_byte(_, _)
crc_byte(c, k) == IF k = 0 THEN c ELSE crc_byte(crc_shift(c), k - 1)

RECURSIVE crc_update(_, _, _)
crc_update(data, i, c) ==
    IF i > Len(data) THEN c
    ELSE crc_update(data, i + 1, crc_byte(crc_xor(c, <<0, data[i]>>), 8))

calc_crc32(data) == crc_xor(crc_update(data, 1, crc_ones), crc_ones)

\* The four bytes of a uint32_t crc in memory.
crc_bytes(c) == to_bytes(c[2], 2) \o to_bytes(c[1], 2)

\* The outcomes of a call.
Answered(name, value, sent, response) ==
    [call |-> name, kind |-> "returned", value |-> value, error |-> "",
     sent |-> sent, response |-> response, beyond |-> FALSE]

Threw(name, error, sent, response) ==
    [call |-> name, kind |-> "failed", value |-> <<>>, error |-> error,
     sent |-> sent, response |-> response, beyond |-> FALSE]

\* The call went outside the response: what comes of it is undefined.
Beyond(a) == [a EXCEPT !.beyond = TRUE]

Died(name, sent, response) ==
    [call |-> name, kind |-> "crashed", value |-> <<>>, error |-> "",
     sent |-> sent, response |-> response, beyond |-> TRUE]

DeviceNotSet(name) == Threw(name, "device has not been set", <<>>, <<>>)

\* A check that takes a short answer in the COMPLETE state too.
check_buffer_size_up_to_complete(res) ==
    IF Len(res) > 1
      THEN \/ /\ res[1] <= RS2_D500_CALIBRATION_STATE_COMPLETE
              /\ Len(res) = sizeof_d500_calibration_answer - sizeof_d500_coefficients_table
           \/ /\ res[1] = RS2_D500_CALIBRATION_STATE_COMPLETE
              /\ Len(res) = sizeof_d500_calibration_answer
      ELSE FALSE

check_buffer_size_from_get_calib_status(res) ==
    IF Len(res) > 1
      THEN \/ /\ res[1] < RS2_D500_CALIBRATION_STATE_COMPLETE
              /\ Len(res) = sizeof_d500_calibration_answer - sizeof_d500_coefficients_table
           \/ /\ res[1] = RS2_D500_CALIBRATION_STATE_COMPLETE
              /\ Len(res) = sizeof_d500_calibration_answer
      ELSE FALSE

\* res.erase( res.begin(), res.begin() + 4 )
erase_opcode(res) == SubSeq(res, OpcodeSize + 1, Len(res))

\* get_status: the outcomes for a raw response.  Erasing 4 elements of a
\* shorter vector is undefined; so is the copy of a whole
\* d500_calibration_answer out of a vector that holds only its first bytes
\* (the answer then carries whatever lies behind the vector).
get_status(dev, raw) ==
    LET sent == <<"GET_CALIB_STATUS">>
        res == erase_opcode(raw)
        wrong_size ==
            Threw("get_status", "GET_CALIB_STATUS returned struct with wrong size", sent, raw)
    IN  IF dev = "null" THEN { DeviceNotSet("get_status") }
        ELSE IF Len(raw) < OpcodeSize
          THEN { Died("get_status", sent, raw), Beyond(wrong_size) }
        ELSE IF ~check_buffer_size_from_get_calib_status(res) THEN { wrong_size }
        ELSE IF Len(res) < sizeof_d500_calibration_answer
          THEN { Beyond(Answered("get_status", res, sent, raw)), Died("get_status", sent, raw) }
        ELSE { Answered("get_status", res, sent, raw) }

\* A run_auto_calibration that does not test _dev.
run_auto_calibration_unguarded(dev, _mode, raw) ==
    Answered("run_auto_calibration", raw, <<"SET_CALIB_MODE">>, raw)

run_auto_calibration(dev, _mode, raw) ==
    IF dev = "null" THEN DeviceNotSet("run_auto_calibration")
    ELSE Answered("run_auto_calibration", raw, <<"SET_CALIB_MODE">>, raw)

add_header_to_calib_config(calib_config) ==
    LET computed_crc32 == calc_crc32(calib_config)
        version == 1 * 256 + 1
        calib_version == 0
    IN  to_bytes(version, 2) \o to_bytes(calib_cfg_id, 2)
          \o to_bytes(sizeof_rs2_calibration_config, 4) \o to_bytes(calib_version, 4)
          \o crc_bytes(computed_crc32) \o calib_config

set_calibration_config(dev, calib_config, raw) ==
    IF dev = "null" THEN DeviceNotSet("set_calibration_config")
    ELSE Answered("set_calibration_config", <<>>, <<"SET_HKR_CONFIG_TABLE">>, raw)

\* The fields of rs2_calibration_config_with_header as read through the
\* pointer to res.data().
header_crc32(res) ==
    SubSeq(res, sizeof_rs2_calibration_config_header - 3, sizeof_rs2_calibration_config_header)

payload(res) ==
    SubSeq(res, sizeof_rs2_calibration_config_header + 1,
           sizeof_rs2_calibration_config_with_header)

\* A get_calibration_config that takes a 4-byte opcode off the response first,
\* as get_status does.
get_calibration_config_sliced(dev, res) ==
    LET sent == <<"GET_HKR_CONFIG_TABLE">>
        sliced == erase_opcode(res)
    IN  IF dev = "null" THEN DeviceNotSet("get_calibration_config")
        ELSE IF Len(sliced) < sizeof_rs2_calibration_config_with_header
          THEN Threw("get_calibration_config", "Calibration config reading failed", sent, res)
        ELSE IF crc_bytes(calc_crc32(payload(sliced))) # header_crc32(sliced)
          THEN Threw("get_calibration_config",
                     "Invalid CRC value for calibration config table", sent, res)
        ELSE Answered("get_calibration_config", payload(sliced), sent, res)

get_calibration_config(dev, res) ==
    LET sent == <<"GET_HKR_CONFIG_TABLE">>
    IN  IF dev = "null" THEN DeviceNotSet("get_calibration_config")
        ELSE IF Len(res) < sizeof_rs2_calibration_config_with_header
          THEN Threw("get_calibration_config", "Calibration config reading failed", sent, res)
        ELSE IF crc_bytes(calc_crc32(payload(res))) # header_crc32(res)
          THEN Threw("get_calibration_config",
                     "Invalid CRC value for calibration config table", sent, res)
        ELSE Answered("get_calibration_config", payload(res), sent, res)

\* The device side.  A raw response begins with the opcode.
OpcodeEcho == Zeros(OpcodeSize)

StateBytes ==
    { 0, RS2_D500_CALIBRATION_STATE_COMPLETE - 1, RS2_D500_CALIBRATION_STATE_COMPLETE,
      RS2_D500_CALIBRATION_STATE_COMPLETE + 1, 255 }

AnswerSizes ==
    { 0, 1, 2,
      sizeof_d500_calibration_answer - sizeof_d500_coefficients_table,
      sizeof_d500_calibration_answer - sizeof_d500_coefficients_table + 1,
      sizeof_d500_calibration_answer - 1,
      sizeof_d500_calibration_answer,
      sizeof_d500_calibration_answer + 1 }

\* A calibration answer of n bytes in state st, behind the opcode.
StatusResponse(st, n) == OpcodeEcho \o [i \in 1..n |-> IF i = 1 THEN st ELSE 0]

StatusResponses ==
    { StatusResponse(st, n) : st \in StateBytes, n \in AnswerSizes }
        \cup { Zeros(n) : n \in 0..(OpcodeSize - 1) }

ConfigBytes == {0, 7}
Configs == [1..sizeof_rs2_calibration_config -> ConfigBytes]

Modes == {0, 1, 2}

\* The table with its last byte changed.
corrupted(table) == [table EXCEPT ![Len(table)] = 255 - @]

\* What a device may answer to GET_HKR_CONFIG_TABLE: the table it holds
\* behind the opcode, the same damaged or cut short, the bare table, or
\* nothing but the opcode.
ConfigResponses(table) ==
    IF table = <<>> THEN { <<>>, OpcodeEcho }
    ELSE { OpcodeEcho \o table,
           OpcodeEcho \o corrupted(table),
           OpcodeEcho \o SubSeq(table, 1, Len(table) - 1 - OpcodeSize),
           table,
           corrupted(table),
           OpcodeEcho }

\* A crash ends the process.
Running == answer.kind # "crashed"

SetDeviceForAutoCalib ==
    /\ Running
    /\ \E d \in {"null", "device"} : _dev' = d
    /\ answer' = Answered("set_device_for_auto_calib", <<>>, <<>>, <<>>)
    /\ UNCHANGED device
    /\ UNCHANGED <<loader_vars, formatter_vars, broadcast_vars>>

GetStatus ==
    /\ Running
    /\ \E raw \in StatusResponses : answer' \in get_status(_dev, raw)
    /\ UNCHANGED <<_dev, device>>
    /\ UNCHANGED <<loader_vars, formatter_vars, broadcast_vars>>

RunAutoCalibration ==
    /\ Running
    /\ \E _mode \in Modes : answer' = run_auto_calibration(_dev, _mode, OpcodeEcho)
    /\ UNCHANGED <<_dev, device>>
    /\ UNCHANGED <<loader_vars, formatter_vars, broadcast_vars>>

\* The device keeps the table it is sent.
SetCalibrationConfig ==
    /\ Running
    /\ \E calib_config \in Configs :
        /\ answer' = set_calibration_config(_dev, calib_config, OpcodeEcho)
        /\ device' = IF _dev = "null" THEN device
                     ELSE [table |-> add_header_to_calib_config(calib_config)]
    /\ UNCHANGED _dev
    /\ UNCHANGED <<loader_vars, formatter_vars, broadcast_vars>>

GetCalibrationConfig ==
    /\ Running
    /\ \E raw \in ConfigResponses(device.table) : answer' = get_calibration_config(_dev, raw)
    /\ UNCHANGED <<_dev, device>>
    /\ UNCHANGED <<loader_vars, formatter_vars, broadcast_vars>>

NextHandler ==
    \/ SetDeviceForAutoCalib
    \/ GetStatus
    \/ RunAutoCalibration
    \/ SetCalibrationConfig
    \/ GetCalibrationConfig

\* A handler as constructed: no device given.
InitHandler ==
    /\ xml_content = DocTree("Format", <<>>)
    /\ NoLoaderCall
    /\ NoFormatter
    /\ NoBroadcastManager
    /\ NoHandler

SpecHandler == InitHandler /\ [][NextHandler]_vars

(***************************************************************************)
(* What the documents say, stated on the tree itself.                      *)
(***************************************************************************)
Top == xml_content.kids
HasRoot == xml_content.kind = "tree"
RootIsFormat == HasRoot /\ xml_content.root = "Format"
Called(name) == call.name = name
Requested == call.args[1]
Pairs(m) == { <<k, m[k]>> : k \in DOMAIN m }

HasAttr(n, name) == \E i \in DOMAIN n.attrs : n.attrs[i][1] = name
AttrVal(n, name) ==
    n.attrs[CHOOSE i \in DOMAIN n.attrs :
                /\ n.attrs[i][1] = name
                /\ \A j \in 1..(i - 1) : n.attrs[j][1] # name][2]
HasNumber(n, name) == HasAttr(n, name) /\ stoi(AttrVal(n, name)).kind = "ok"
Num(n, name) == stoi(AttrVal(n, name)).value
Tagged(ks, tag) == { i \in DOMAIN ks : ks[i].tag = tag }

\* Top[i] is the first Source node with this id, and the Source nodes before
\* it all carry a number as their id.
IsRequestedSource(i, id) ==
    /\ i \in Tagged(Top, "Source")
    /\ HasNumber(Top[i], "id") /\ Num(Top[i], "id") = id
    /\ \A j \in Tagged(Top, "Source") :
           j < i => HasNumber(Top[j], "id") /\ Num(Top[j], "id") # id

WellFormedModules(src) ==
    /\ \A k \in Tagged(src.kids, "Module") :
           HasNumber(src.kids[k], "id") /\ HasNumber(src.kids[k], "verbosity")
    /\ \A k, l \in Tagged(src.kids, "Module") :
           k # l => Num(src.kids[k], "id") # Num(src.kids[l], "id")

WellFormedDefinitions ==
    /\ RootIsFormat
    /\ \A i \in Tagged(Top, "Source") : HasNumber(Top[i], "id") /\ WellFormedModules(Top[i])
    /\ \A i, j \in Tagged(Top, "Source") : i # j => Num(Top[i], "id") # Num(Top[j], "id")

ModulePairs(src) ==
    { <<Num(src.kids[k], "id"), Num(src.kids[k], "verbosity")>> : k \in Tagged(src.kids, "Module") }

(***************************************************************************)
(* C1.  Every loader given the empty document string fails with the        *)
(* empty-input error.  (Stated as claimed; the code does not do this.)     *)
(***************************************************************************)
C1_EmptyStringIsEmptyInput ==
    (call.name # "none" /\ xml_content.kind = "empty")
        => (result.kind = "error" /\ result.err = "EmptyInput")

(***************************************************************************)
(* C2.  On a well-formed definitions document (every Source has its own    *)
(* id, every Module of a Source its own id and a verbosity), for a source  *)
(* id present in it, get_source_module_verbosity returns the map whose     *)
(* entries are exactly the (id, verbosity) pairs of the Module children of *)
(* the Source with that id.                                                *)
(***************************************************************************)
C2_ModuleVerbosityOfTheSource ==
    (Called("get_source_module_verbosity") /\ WellFormedDefinitions)
        => \A i \in Tagged(Top, "Source") :
               Num(Top[i], "id") = Requested
                   => /\ result.kind = "ok"
                      /\ Pairs(result.value) = ModulePairs(Top[i])

\* The requested Source has two modules and the other Source a module that
\* the requested one has not.
C2_Witness ==
    /\ Called("get_source_module_verbosity") /\ WellFormedDefinitions
    /\ result.kind = "ok"
    /\ Cardinality(DOMAIN result.value) = 2
    /\ \E i, j \in Tagged(Top, "Source") :
           /\ Num(Top[i], "id") = Requested
           /\ Num(Top[j], "id") # Requested
           /\ ModulePairs(Top[j]) \ ModulePairs(Top[i]) # {}

Min(S) == CHOOSE x \in S : \A y \in S : x <= y
UpTo(n) == [j \in 1..n |-> j]
Last(q) == q[Len(q)]

\* Every id and verbosity a Module child of src carries is a number.
ModuleNumbersParse(src) ==
    \A k \in Tagged(src.kids, "Module") :
        /\ HasAttr(src.kids[k], "id") => HasNumber(src.kids[k], "id")
        /\ HasAttr(src.kids[k], "verbosity") => HasNumber(src.kids[k], "verbosity")

(***************************************************************************)
(* C3.  When a Module child of the requested Source lacks the verbosity    *)
(* attribute, at any position among its siblings,                          *)
(* get_source_module_verbosity fails as a whole and returns no map; the    *)
(* error is the missing-attribute error naming the tag Module (all the     *)
(* attribute values read from the Module children being numbers).          *)
(***************************************************************************)
C3_MissingVerbosityFailsTheCall ==
    (Called("get_source_module_verbosity") /\ RootIsFormat)
        => \A i \in Tagged(Top, "Source") :
               ( /\ IsRequestedSource(i, Requested)
                 /\ \E k \in Tagged(Top[i].kids, "Module") : ~HasAttr(Top[i].kids[k], "verbosity") )
                   => /\ result.kind = "error"
                      /\ result.value = NoValue
                      /\ ModuleNumbersParse(Top[i])
                            => result.err = "MissingAttribute" /\ result.tag = "Module"

\* The Module without verbosity comes after a well-formed Module.
C3_Witness ==
    /\ Called("get_source_module_verbosity") /\ RootIsFormat
    /\ result.err = "MissingAttribute" /\ result.tag = "Module" /\ result.attr = "verbosity"
    /\ \E i \in Tagged(Top, "Source") :
           /\ IsRequestedSource(i, Requested)
           /\ Len(Top[i].kids) = 2
           /\ HasNumber(Top[i].kids[1], "id") /\ HasNumber(Top[i].kids[1], "verbosity")
           /\ Top[i].kids[2].tag = "Module" /\ ~HasAttr(Top[i].kids[2], "verbosity")

(***************************************************************************)
(* C4.  When get_events, get_files, get_modules or get_threads succeeds,   *)
(* the keys of the table are exactly the ids of the root-level nodes       *)
(* tagged Event, File, Module and Thread respectively.                     *)
(***************************************************************************)
TagOfCall ==
    CASE Called("get_events") -> "Event"
      [] Called("get_files") -> "File"
      [] Called("get_modules") -> "Module"
      [] Called("get_threads") -> "Thread"
      [] OTHER -> ""

C4_KeysAreTheIdsOfTheTag ==
    (TagOfCall # "" /\ result.kind = "ok")
        => DOMAIN result.value = { Num(Top[i], "id") : i \in Tagged(Top, TagOfCall) }

\* A table with a key, and a node of another tag whose id is no key of it.
C4_Witness ==
    /\ Called("get_files") /\ result.kind = "ok"
    /\ DOMAIN result.value # {}
    /\ \E i \in DOMAIN Top :
           /\ Top[i].tag # "File"
           /\ HasNumber(Top[i], "id")
           /\ Num(Top[i], "id") \notin DOMAIN result.value

RECURSIVE GroupsFrom(_, _)
GroupsFrom(ks, i) ==
    IF i > Len(ks) THEN <<>>
    ELSE (IF ks[i].tag = "Enums" THEN ks[i].kids ELSE <<>>) \o GroupsFrom(ks, i + 1)

\* The enum group nodes of the document, in document order.
Groups == GroupsFrom(Top, 1)
NamesOf(g) == { g.attrs[a][2] : a \in { x \in DOMAIN g.attrs : g.attrs[x][1] = "Name" } }

(***************************************************************************)
(* C5.  When get_enums succeeds, the keys of the table are exactly the     *)
(* names of the enum groups under the Enums node: no key that is not the   *)
(* name of a group.  (Stated as claimed; the code does not do this.)       *)
(***************************************************************************)
C5_EnumKeysAreTheGroupNames ==
    (Called("get_enums") /\ result.kind = "ok")
        => DOMAIN result.value = UNION { NamesOf(Groups[g]) : g \in DOMAIN Groups }

(***************************************************************************)
(* C6.  In every table, a key that occurs on several nodes has the entry   *)
(* of the first of these nodes in document order.  (Stated as claimed; the *)
(* enum table breaks it through the insertions of C5.)                     *)
(***************************************************************************)
FirstKeeps(nodes, holds(_, _), entry(_)) ==
    \A k \in DOMAIN result.value :
        LET holders == { n \in DOMAIN nodes : holds(nodes[n], k) }
        IN  Cardinality(holders) > 1 => result.value[k] = entry(nodes[Min(holders)])

HoldsId(n, k) == HasNumber(n, "id") /\ Num(n, "id") = k
HoldsName(g, k) == k \in NamesOf(g)
NodesTagged(ks, tag) == [n \in 1..Len(SelectSeq(ks, LAMBDA x : x.tag = tag)) |->
                            SelectSeq(ks, LAMBDA x : x.tag = tag)[n]]
EventEntry(n) == get_event_data(n).value
NameEntry(n) == get_name_attribute(n).value
VerbosityEntry(n) == get_verbosity_attribute(n).value
EnumEntry(g) == get_enum_values(g).value

C6_FirstNodeKeepsTheKey ==
    result.kind = "ok"
        => CASE Called("get_enums") -> FirstKeeps(Groups, HoldsName, EnumEntry)
             [] Called("get_events") -> FirstKeeps(NodesTagged(Top, "Event"), HoldsId, EventEntry)
             [] TagOfCall \in {"File", "Module", "Thread"} ->
                    FirstKeeps(NodesTagged(Top, TagOfCall), HoldsId, NameEntry)
             [] Called("get_source_module_verbosity") ->
                    FirstKeeps(NodesTagged(Top[Last(result.visited)].kids, "Module"),
                               HoldsId, VerbosityEntry)
             [] OTHER -> TRUE

(***************************************************************************)
(* C7.  On a parsed document, every loader fails with the unexpected-root  *)
(* error unless the root tag is exactly "Format"; when it is, the loader   *)
(* starts at the root's first child and goes through the root's children   *)
(* in document order (all of them, when a table is returned).              *)
(***************************************************************************)
C7_RootMustBeFormat ==
    (call.name # "none" /\ HasRoot)
        => IF xml_content.root # "Format"
           THEN result.kind = "error" /\ result.err = "UnexpectedRoot"
           ELSE /\ result.err # "UnexpectedRoot"
                /\ result.visited = UpTo(Len(result.visited))
                /\ Top # <<>> => result.visited # <<>>
                /\ (result.kind = "ok" /\ (TagOfCall # "" \/ Called("get_enums")))
                      => Len(result.visited) = Len(Top)

\* A root that differs from "Format" by its case only.
C7_Witness ==
    /\ call.name # "none" /\ HasRoot
    /\ xml_content.root = "format" /\ Top # <<>>
    /\ result.err = "UnexpectedRoot"

\* The File children of src that carry a Path.
FilesWithPath(src) == { k \in Tagged(src.kids, "File") : HasAttr(src.kids[k], "Path") }

(***************************************************************************)
(* C8.  get_source_parser_file_path returns the Path attribute of the      *)
(* File child (the first that carries a Path) of the requested Source; it  *)
(* fails with the missing-file error when that Source has no File child    *)
(* carrying a Path; it never returns an empty path.                        *)
(***************************************************************************)
C8_FilePathOfTheSource ==
    (Called("get_source_parser_file_path") /\ RootIsFormat)
        => /\ result.kind = "ok"
                => /\ result.value # <<>>
                   /\ \E i \in Tagged(Top, "Source") : IsRequestedSource(i, Requested)
           /\ \A i \in Tagged(Top, "Source") :
                  IsRequestedSource(i, Requested)
                      => IF FilesWithPath(Top[i]) = {}
                         THEN result.kind = "error" /\ result.err = "MissingFileNode"
                         ELSE LET path == AttrVal(Top[i].kids[Min(FilesWithPath(Top[i]))], "Path")
                              IN  IF path = <<>>
                                  THEN result.kind = "error" /\ result.err = "MissingFileNode"
                                  ELSE result.kind = "ok" /\ result.value = path

\* The path comes from the second Source, whose first File child has no Path.
C8_Witness ==
    /\ Called("get_source_parser_file_path") /\ RootIsFormat
    /\ result.kind = "ok" /\ result.value = <<"p">>
    /\ IsRequestedSource(2, Requested)
    /\ Len(Top[2].kids) = 2 /\ Top[2].kids[1].tag = "File" /\ ~HasAttr(Top[2].kids[1], "Path")

(***************************************************************************)
(* C9.  The source lookup goes through the root-level siblings in document *)
(* order and stops at the first node tagged Source whose id is the         *)
(* requested one; it fails with the not-found error when no Source has     *)
(* that id; a node of another tag with that id is never taken.             *)
(***************************************************************************)
C9_SourceLookup ==
    ((Called("get_source_parser_file_path") \/ Called("get_source_module_verbosity")) /\ RootIsFormat)
        => /\ \A i \in Tagged(Top, "Source") :
                  IsRequestedSource(i, Requested)
                      => result.err # "NotFound" /\ result.visited = UpTo(i)
           /\ (\A j \in Tagged(Top, "Source") :
                  HasNumber(Top[j], "id") /\ Num(Top[j], "id") # Requested)
                      => /\ result.kind = "error" /\ result.err = "NotFound"
                         /\ result.visited = UpTo(Len(Top))
           /\ result.kind = "ok"
                  => /\ result.visited # <<>>
                     /\ IsRequestedSource(Last(result.visited), Requested)

\* The Source found stands after a node of another tag that has the same id.
C9_Witness ==
    /\ Called("get_source_module_verbosity") /\ RootIsFormat
    /\ result.kind = "ok" /\ result.visited = <<1, 2>>
    /\ Top[1].tag # "Source" /\ HasNumber(Top[1], "id") /\ Num(Top[1], "id") = Requested

NumbersParse(n, name) ==
    \A a \in DOMAIN n.attrs : n.attrs[a][1] = name => stoi(n.attrs[a][2]).kind = "ok"

(***************************************************************************)
(* C10.  get_events fails with the missing-event-attribute error when a    *)
(* root-level Event node lacks numberOfArguments or lacks format, at any   *)
(* position, the Event nodes being well-formed otherwise (each with a      *)
(* number as id and as numberOfArguments where present).                   *)
(***************************************************************************)
C10_EventWithoutArgumentsOrFormat ==
    ( /\ Called("get_events") /\ RootIsFormat
      /\ \A e \in Tagged(Top, "Event") :
             HasNumber(Top[e], "id") /\ NumbersParse(Top[e], "numberOfArguments")
      /\ \E e \in Tagged(Top, "Event") :
             ~HasAttr(Top[e], "numberOfArguments") \/ ~HasAttr(Top[e], "format") )
        => result.kind = "error" /\ result.err = "MissingEventAttribute"

\* The Event without format comes last, after two well-formed Event nodes.
C10_Witness ==
    /\ Called("get_events") /\ RootIsFormat
    /\ result.err = "MissingEventAttribute"
    /\ Len(Top) = 3
    /\ \A e \in 1..2 : /\ Top[e].tag = "Event" /\ HasNumber(Top[e], "id")
                       /\ get_event_data(Top[e]).kind = "ok"
    /\ Top[3].tag = "Event" /\ HasNumber(Top[3], "id") /\ ~HasAttr(Top[3], "format")

(***************************************************************************)
(* C11.  get_enums fails with the missing-enum-value-attribute error when  *)
(* an EnumValue node of an enum group under the Enums node lacks Key or    *)
(* lacks Value, also when the group node has no attributes of its own.     *)
(* (Stated as claimed; the code reads the values of a group once for each  *)
(* attribute of the group node, and never for a group without attributes.) *)
(***************************************************************************)
LacksKeyOrValue(g) ==
    \E v \in Tagged(g.kids, "EnumValue") :
        ~HasAttr(g.kids[v], "Key") \/ ~HasAttr(g.kids[v], "Value")

C11_EnumValueWithoutKeyOrValue ==
    (Called("get_enums") /\ RootIsFormat /\ \E g \in DOMAIN Groups : LacksKeyOrValue(Groups[g]))
        => (result.kind = "error" /\ result.err = "MissingEnumValueAttribute")

(***************************************************************************)
(* C12.  A loader returns a table built from the whole document, or fails  *)
(* and returns no table: a call that does not succeed leaves no value; a   *)
(* malformed node of the loader's tag, at any position, also after         *)
(* well-formed ones, fails the call; a table is returned only after every  *)
(* root-level node was visited.  (Stated as claimed, for every loader; it  *)
(* holds of the event, name and module-verbosity tables, and get_enums     *)
(* breaks it through the skipped groups of C11.)                           *)
(***************************************************************************)
MalformedEntry(n) ==
    CASE Called("get_events") ->
             n.tag = "Event" /\ (get_id_attribute(n).kind # "ok" \/ get_event_data(n).kind # "ok")
      [] TagOfCall \in {"File", "Module", "Thread"} ->
             n.tag = TagOfCall
                 /\ (get_id_attribute(n).kind # "ok" \/ get_name_attribute(n).kind # "ok")
      [] Called("get_source_module_verbosity") ->
             n.tag = "Module"
                 /\ (get_id_attribute(n).kind # "ok" \/ get_verbosity_attribute(n).kind # "ok")
      [] Called("get_enums") -> get_enum_values(n).kind # "ok"
      [] OTHER -> FALSE

HasMalformedEntry(ks) == \E k \in DOMAIN ks : MalformedEntry(ks[k])

\* The part that holds: the tables of get_events, get_files, get_modules,
\* get_threads and get_source_module_verbosity.
NoPartialTableOfNodes ==
    call.name # "none"
        => /\ result.kind # "ok" => result.value = NoValue
           /\ (RootIsFormat /\ TagOfCall # "")
                 => /\ HasMalformedEntry(Top) => result.kind = "error"
                    /\ result.kind = "ok" => result.visited = UpTo(Len(Top))
           /\ (RootIsFormat /\ Called("get_source_module_verbosity"))
                 => \A i \in DOMAIN Top :
                        (IsRequestedSource(i, Requested) /\ HasMalformedEntry(Top[i].kids))
                            => result.kind = "error"

C12_NoPartialTable ==
    /\ NoPartialTableOfNodes
    /\ (RootIsFormat /\ Called("get_enums"))
          => /\ HasMalformedEntry(Groups) => result.kind = "error"
             /\ result.kind = "ok" => result.visited = UpTo(Len(Top))

(***************************************************************************)
(* What a decoded frame says.                                              *)
(***************************************************************************)
Decoded(t) == decoder[t].pc = "done"
FrameOf(t) == decoder[t].frame
MessageOf(t) == decoder[t].message
Returned(t, text) == MessageOf(t).kind = "ok" /\ MessageOf(t).value = text
Failed(t, e) == MessageOf(t).kind = "error" /\ MessageOf(t).err = e
uint8 == ParamInfo(1, FALSE)
uint16 == ParamInfo(2, FALSE)
HasEvent(e) == e \in DOMAIN registry.events
HasEnum(name, pairs) == name \in DOMAIN registry.enums /\ registry.enums[name] = pairs

(***************************************************************************)
(* C13.  With the event "power={0} state={1:PowerEnum}" of two arguments   *)
(* and PowerEnum = [(1, ON), (0, OFF)], the blob (42 as uint16, 0 as       *)
(* uint8) gives exactly "power=42 state=OFF": the expression placeholder   *)
(* becomes the decimal text of the decoded value (least significant byte   *)
(* first), the enum placeholder the literal paired with the decoded key.   *)
(***************************************************************************)
PowerEvent(t, blob) ==
    /\ Decoded(t)
    /\ FrameOf(t) = Frame(1, <<uint16, uint8>>, blob)
    /\ HasEvent(1) /\ registry.events[1] = <<2, <<"p", "o", "w", "e", "r", "=", "{", "0", "}", " ", "s", "t", "a", "t", "e", "=", "{", "1", ":", "P", "o", "w", "e", "r", "E", "n", "u", "m", "}">>>>
    /\ HasEnum(PowerEnum, << <<1, <<"O", "N">>>>, <<0, <<"O", "F", "F">>>> >>)

C13_PowerStateMessage ==
    \A t \in DOMAIN decoder :
        /\ PowerEvent(t, <<42, 0, 0>>) => Returned(t, <<"p", "o", "w", "e", "r", "=", "4", "2", " ", "s", "t", "a", "t", "e", "=", "O", "F", "F">>)
        /\ PowerEvent(t, <<0, 42, 0>>) => Returned(t, <<"p", "o", "w", "e", "r", "=", "1", "0", "7", "5", "2", " ", "s", "t", "a", "t", "e", "=", "O", "F", "F">>)
        /\ PowerEvent(t, <<42, 42, 0>>) => Returned(t, <<"p", "o", "w", "e", "r", "=", "1", "0", "7", "9", "4", " ", "s", "t", "a", "t", "e", "=", "O", "F", "F">>)

C13_Witness ==
    \E t \in DOMAIN decoder : PowerEvent(t, <<42, 0, 0>>) /\ Returned(t, <<"p", "o", "w", "e", "r", "=", "4", "2", " ", "s", "t", "a", "t", "e", "=", "O", "F", "F">>)

(***************************************************************************)
(* C14.  For every descriptor sequence of a frame whose event resolves: a  *)
(* blob shorter than the sum of the declared widths fails with             *)
(* TruncatedBlob, a longer one (by one byte already) with TrailingBytes,   *)
(* and only a blob of exactly that length is decoded.                      *)
(***************************************************************************)
Resolved(t) == Decoded(t) /\ ~Failed(t, "UnknownEvent") /\ ~Failed(t, "ArgumentCountMismatch")

C14_BlobLengthIsExact ==
    \A t \in DOMAIN decoder :
        Resolved(t)
            => LET declared == TotalWidth(FrameOf(t).params_info)
                   actual == Len(FrameOf(t).blob)
               IN  /\ actual < declared => Failed(t, "TruncatedBlob")
                   /\ actual > declared => Failed(t, "TrailingBytes")
                   /\ actual = declared
                         => /\ ~Failed(t, "TruncatedBlob") /\ ~Failed(t, "TrailingBytes")
                            /\ Len(decoder[t].values) = Len(FrameOf(t).params_info)
                            /\ decoder[t].cursor = actual

\* One byte more than the two declared parameters take.
C14_Witness ==
    \E t \in DOMAIN decoder :
        /\ Resolved(t) /\ Failed(t, "TrailingBytes")
        /\ Len(FrameOf(t).params_info) = 2
        /\ Len(FrameOf(t).blob) = TotalWidth(FrameOf(t).params_info) + 1

(***************************************************************************)
(* C15.  When the argument count an event declares differs from the number *)
(* of placeholders in its template, generate_message fails with            *)
(* ArgumentCountMismatch, whatever the descriptors and the blob.           *)
(***************************************************************************)
\* In the templates explored every "{" opens a placeholder.
PlaceholderCount(format) == Cardinality({ i \in DOMAIN format : format[i] = "{" })

C15_ArgumentCountMismatch ==
    \A t \in DOMAIN decoder :
        (Decoded(t) /\ HasEvent(FrameOf(t).event_id))
            => LET event == registry.events[FrameOf(t).event_id]
               IN  (event[1] # PlaceholderCount(event[2])) <=> Failed(t, "ArgumentCountMismatch")

\* A blob too short for its descriptors, and still the mismatch is reported.
C15_Witness ==
    \E t \in DOMAIN decoder :
        /\ Decoded(t) /\ HasEvent(FrameOf(t).event_id)
        /\ Failed(t, "ArgumentCountMismatch")
        /\ Len(FrameOf(t).blob) < TotalWidth(FrameOf(t).params_info)

(***************************************************************************)
(* C16.  An enum placeholder becomes the literal of the first EnumValue of *)
(* the enum, in document order, whose Key is the decoded key, also when    *)
(* several EnumValue nodes carry that Key; with no such EnumValue the      *)
(* decode fails with UnknownEnumValue.                                     *)
(***************************************************************************)
\* The EnumValue children of the first group called name, in document order.
EnumValuesInDocument(name) ==
    LET g == Min({ x \in DOMAIN Groups : name \in NamesOf(Groups[x]) })
    IN  NodesTagged(Groups[g].kids, "EnumValue")

\* Thread t has decoded a frame of event 2, "{0:D}", with one byte as key.
DupEvent(t) ==
    /\ Decoded(t) /\ FrameOf(t).event_id = 2
    /\ FrameOf(t).params_info = <<uint8>> /\ Len(FrameOf(t).blob) = 1
    /\ HasEvent(2) /\ \E g \in DOMAIN Groups : Dup \in NamesOf(Groups[g])

NoEnumsNode ==
    /\ RootIsFormat /\ Tagged(Top, "Enums") = {} /\ Tagged(Top, "Event") # {}
    /\ \A i \in Tagged(Top, "Event") :
           HasNumber(Top[i], "id") /\ get_event_data(Top[i]).kind = "ok"
EnumNames == { PowerEnum, Dup, <<"N">>, <<>> }
HasEnumPlaceholder(t) == \E k \in DOMAIN decoder[t].tokens : decoder[t].tokens[k].kind = "enum"
\* The template has an enum placeholder for one of the frame's parameters.
LooksUpEnum(t) ==
    \E k \in DOMAIN decoder[t].tokens :
        /\ decoder[t].tokens[k].kind = "enum"
        /\ decoder[t].tokens[k].index < Len(FrameOf(t).params_info)

C17_NoEnumsNoLookup ==
    NoEnumsNode
        => /\ DOMAIN registry.events = { Num(Top[i], "id") : i \in Tagged(Top, "Event") }
           /\ registry.enums = EmptyMap /\ formatter.enums = EmptyMap
           /\ \A name \in EnumNames : enum_for(formatter.enums, name).err = "UnknownEnum"
           /\ \A t \in DOMAIN decoder :
                  (Resolved(t) /\ LooksUpEnum(t)
                       /\ Len(FrameOf(t).blob) = TotalWidth(FrameOf(t).params_info))
                      => Failed(t, "UnknownEnum")

C17_Witness ==
    /\ NoEnumsNode
    /\ \E t \in DOMAIN decoder :
           /\ Decoded(t) /\ FrameOf(t) = Frame(1, <<uint16, uint8>>, <<42, 0, 0>>)
           /\ Failed(t, "UnknownEnum")

(***************************************************************************)
(* C18.  While any number of threads decode frames, in any interleaving of *)
(* their steps, the registry and the formatter's enum table are what the   *)
(* construction made them.                                                 *)
(***************************************************************************)
C18_TablesNeverChange ==
    /\ registry = BuildRegistry(xml_content)
    /\ formatter = [enums |-> BuildRegistry(xml_content).enums]

\* Two threads in the middle of a frame, one of them about to look up an
\* enum the table does not have.
C18_Witness ==
    /\ \A t \in DOMAIN decoder : decoder[t].pc = "decoding"
    /\ Cardinality(DOMAIN decoder) > 1
    /\ \E t \in DOMAIN decoder :
           /\ HasEnumPlaceholder(t)
           /\ Len(decoder[t].values) = Len(FrameOf(t).params_info)
           /\ \E k \in DOMAIN decoder[t].tokens :
                  /\ decoder[t].tokens[k].kind = "enum"
                  /\ decoder[t].tokens[k].enum_name \notin DOMAIN formatter.enums

(***************************************************************************)
(* C19.  Whatever frames a thread decoded before, failed ones included,    *)
(* the outcome of a frame is the outcome of that frame decoded alone.      *)
(***************************************************************************)
C19_FramesAreIndependent ==
    \A t \in DOMAIN decoder :
        Decoded(t)
            => MessageOf(t) = generate_message(registry.events, formatter.enums, FrameOf(t))

\* A frame decoded to its message right after a frame that failed.
C19_Witness ==
    \E t \in DOMAIN decoder :
        /\ Decoded(t) /\ decoder[t].after_failure
        /\ Returned(t, <<"p", "o", "w", "e", "r", "=", "4", "2", " ", "s", "t", "a", "t", "e", "=", "O", "F", "F">>)

(***************************************************************************)
(* The broadcast manager.                                                  *)
(***************************************************************************)
\* The thread is between its wake-up and its reset.
Gathering == _th.pc \in {"woken", "sleep", "reset"}

\* The thread has left its loop: it found the manager stopped.
Exited == _th.pc \in {"exited", "joined"}

\* The round the thread has just been through, its mutex still held.
RoundOver == _th.pc = "unlock"

\* C20: the triggers that arrive between the thread's wake-up and its reset
\* of the ready condition cause one round only: once the reset is done the
\* condition stays clear until a publication-matched event with a positive
\* count change arrives after it (for as long as the thread is in its loop),
\* and the thread goes to its delay only when such an event arrived after
\* the reset before.  In a round, broadcast() is
\* called at most once on a broadcaster, and when the round is over it has
\* been called once on every broadcaster that was registered when the round
\* took the mutex, and on no other.  (A round cut short because the process
\* died in broadcast() is never over.)
C20_OneRoundOnceEach ==
    /\ (~Gathering /\ ~Exited /\ gathered.after_reset = 0) => ~_ready_for_broadcast
    /\ _th.pc \in {"sleep", "reset"} => gathered.after_reset >= 1
    /\ \A b \in Broadcasters : called.times[b] <= 1
    /\ RoundOver =>
         \A b \in Broadcasters :
             called.times[b] = (IF b \in called.registered THEN 1 ELSE 0)

\* A round over two broadcasters is over; two events arrived between the
\* wake-up and the reset, behind the one that woke the thread, and none
\* since.
C20_Witness ==
    /\ RoundOver
    /\ gathered.before_reset >= 2
    /\ gathered.after_reset = 0
    /\ ~_ready_for_broadcast
    /\ Cardinality(called.registered) >= 2
    /\ \A b \in called.registered : called.times[b] = 1

\* The broadcaster the round is about to call broadcast() on.
Reaches(b) ==
    /\ _th.pc = "loop"
    /\ remaining(_th.last) # {}
    /\ b = next_broadcaster(_th.last)

\* C23: when a round reaches a broadcaster, the broadcaster's constructor
\* has assigned its _writer.
C23_WriterAssignedWhenReached ==
    \A b \in Broadcasters : Reaches(b) => broadcaster[b]._writer

\* The thread is inside its range-for over _broadcasters, or just past it
\* with the mutex still held.
Iterating == _th.pc \in {"loop", "broadcast", "unlock"}

\* The thread is inside a call of broadcast() on b.
InBroadcast(b) == _th.pc = "broadcast" /\ _th.last = b

\* b is not registered: its unregister_broadcaster has returned, or it has
\* not come to its registration (yet, or again).
Unregistered(b) == broadcaster[b].pc \in {"none", "destroyed", "registering"}

\* C24: once unregister_broadcaster(b) has returned, b is not in the set,
\* the thread is not about to call broadcast() on b and is not inside such a
\* call; no insertion or erasure happens while the thread iterates, and the
\* set it iterates over is the one it found when it took the mutex.
C24_UnregisteredIsLeftAlone ==
    /\ \A b \in Broadcasters :
          Unregistered(b) => (b \notin _broadcasters /\ ~Reaches(b) /\ ~InBroadcast(b))
    /\ \A b \in Broadcasters :
          broadcaster[b].pc \in {"inserting", "erasing"} => ~Iterating
    /\ Iterating => _broadcasters = called.registered

\* A broadcaster's unregistration has returned, and the thread is inside a
\* call of broadcast() on another one.
C24_Witness ==
    \E b, c \in Broadcasters :
        /\ broadcaster[b].pc = "destroyed"
        /\ InBroadcast(c)
        /\ broadcaster[c]._writer

\* The event being followed has arrived and no round has begun since.
EventWaits == gathered.tracked = "event"

\* A round that began after the followed event is over and has called
\* broadcast() on every broadcaster registered at that round.
EventCovered == gathered.tracked = "covered"

\* Every followed event gets its round, unless the manager is stopped or the
\* process has died in broadcast() on a broadcaster whose _writer was not
\* assigned.
EventCoveredWhileAlive == EventWaits ~> (EventCovered \/ _stopped \/ ~Alive)

\* C21: no trigger is lost: every publication-matched event with a positive
\* count change is eventually followed by a round that began after it and
\* covered every broadcaster registered at that round, unless the manager
\* is stopped.
C21_NoTriggerLost == EventWaits ~> (EventCovered \/ _stopped)

\* C25: after the stop condition is set the thread begins at most one more
\* round, and the destructor's join returns.
C25_StopTerminatesTheThread ==
    /\ [](called.after_stop <= 1)
    /\ _stopped ~> (_th.pc = "joined")

\* The join has returned, after one more round.
C25_Witness == _th.pc = "joined" /\ called.after_stop = 1

(***************************************************************************)
(* The calibration handler.                                                *)
(***************************************************************************)
\* The latest call was name, made with a device set.
CalledOnDevice(name) == answer.call = name /\ answer.sent # <<>>

\* The response of the latest call holds its opcode, and what follows it.
HoldsOpcode == Len(answer.response) >= OpcodeSize
AfterOpcode == erase_opcode(answer.response)

ShortSize == sizeof_d500_calibration_answer - sizeof_d500_coefficients_table
FullSize == sizeof_d500_calibration_answer

\* The short size with a state below COMPLETE, or the full size with the
\* state COMPLETE.
AnswerFits(res) ==
    \/ Len(res) = ShortSize /\ res[1] < RS2_D500_CALIBRATION_STATE_COMPLETE
    \/ Len(res) = FullSize /\ res[1] = RS2_D500_CALIBRATION_STATE_COMPLETE

WrongSize ==
    /\ answer.kind = "failed"
    /\ answer.error = "GET_CALIB_STATUS returned struct with wrong size"

\* C22: for a response that holds its opcode, get_status returns an answer
\* only when what follows the opcode has the short size (3 bytes) with a
\* state below COMPLETE or the full size (515 bytes) with the state COMPLETE,
\* and the answer is those bytes; every other size and state fails with the
\* wrong-size error, and a fitting one does not.
C22_AnswerOnlyForFittingSize ==
    (CalledOnDevice("get_status") /\ HoldsOpcode) =>
        /\ answer.kind = "returned" =>
              (AnswerFits(AfterOpcode) /\ answer.value = AfterOpcode)
        /\ ~AnswerFits(AfterOpcode) => WrongSize
        /\ AnswerFits(AfterOpcode) => ~WrongSize

\* A full answer in the COMPLETE state was returned.
C22_Witness ==
    /\ CalledOnDevice("get_status")
    /\ answer.kind = "returned"
    /\ Len(answer.value) = FullSize
    /\ ShortSize = 3
    /\ FullSize = 515

DeviceCalls ==
    {"get_status", "run_auto_calibration", "set_calibration_config", "get_calibration_config"}

\* C26: with no device set (null was the last one given, or none ever was)
\* each of the four calls fails with "device has not been set" and sends no
\* command, whatever was called before.
C26_NoDeviceNoCommand ==
    (_dev = "null" /\ answer.call \in DeviceCalls) =>
        /\ answer.kind = "failed"
        /\ answer.error = "device has not been set"
        /\ answer.sent = <<>>

\* The device was set, a table was written, the device was taken away again
\* and the table asked for.
C26_Witness ==
    /\ _dev = "null"
    /\ device.table # <<>>
    /\ answer.call = "get_calibration_config"
    /\ answer.kind = "failed"

\* The response is the table that the device holds, byte for byte.
ReadBack ==
    /\ device.table # <<>>
    /\ answer.response = device.table

\* The config that the table on the device was made from.
WrittenConfig ==
    SubSeq(device.table, sizeof_rs2_calibration_config_header + 1, Len(device.table))

\* The response is at least header plus payload long and the bytes of its
\* crc32 field are the CRC-32 of the bytes of its payload.
Intact(res) ==
    /\ Len(res) >= sizeof_rs2_calibration_config_with_header
    /\ crc_bytes(calc_crc32(payload(res))) = header_crc32(res)

C28_NothingBeyondTheResponse ==
    CalledOnDevice("get_status") =>
        /\ ~answer.beyond
        /\ ~HoldsOpcode => answer.kind = "failed"

(***************************************************************************)
(* The Source node of a lookup and its neighbours.                         *)
(***************************************************************************)
\* The document that holds nothing but this node under its root.
Alone(node) == DocTree("Format", <<node>>)

\* What the call made gives on a document.
SameCallOn(doc) ==
    IF Called("get_source_module_verbosity")
    THEN get_source_module_verbosity(Requested, doc)
    ELSE get_source_parser_file_path(Requested, doc)

\* The same outcome, the way taken through the root's children aside.
SameResult(r, q) ==
    /\ r.kind = q.kind /\ r.err = q.err /\ r.tag = q.tag /\ r.attr = q.attr
    /\ r.value = q.value

\* Top[i] is the one Source node of the document that carries the id.
IsTheSource(i, id) ==
    /\ i \in Tagged(Top, "Source")
    /\ HoldsId(Top[i], id)
    /\ \A j \in Tagged(Top, "Source") : j # i => ~HoldsId(Top[j], id)

SourceCall ==
    /\ call.name \in {"get_source_module_verbosity", "get_source_parser_file_path"}
    /\ RootIsFormat

\* Every Source node before Top[i] carries a number as its id.
NumberedBefore(i) ==
    \A j \in Tagged(Top, "Source") : j < i => HasNumber(Top[j], "id")

\* The result is that of the Source node alone when the Source nodes before
\* it carry a number as their id, whatever their children and whatever
\* comes after it.
SameSourceSameResultBehindNumberedSources ==
    SourceCall =>
        \A i \in DOMAIN Top :
            (IsTheSource(i, Requested) /\ NumberedBefore(i))
                => SameResult(result, SameCallOn(Alone(Top[i])))

\* C29: the result of get_source_module_verbosity(id, doc) and of
\* get_source_parser_file_path(id, doc) is the one that the Source node
\* with the requested id gives on its own, whatever the other Source nodes
\* of the document, before or after it, look like.
C29_OnlyTheRequestedSourceCounts ==
    SourceCall =>
        \A i \in DOMAIN Top :
            IsTheSource(i, Requested) => SameResult(result, SameCallOn(Alone(Top[i])))

(***************************************************************************)
(* The entries of the event table.                                         *)
(***************************************************************************)
NegativeCount(n) ==
    HasNumber(n, "numberOfArguments") /\ Num(n, "numberOfArguments") < 0

EmptyFormat(n) == HasAttr(n, "format") /\ AttrVal(n, "format") = <<>>

\* C30: every entry of a table returned by get_events has a non-negative
\* argument count and a non-empty format; an Event node whose
\* numberOfArguments is negative, or whose format attribute is there but
\* empty, makes get_events fail.
C30_EntriesAreCountedAndFormatted ==
    (Called("get_events") /\ RootIsFormat) =>
        /\ result.kind = "ok" =>
              \A k \in DOMAIN result.value :
                  result.value[k][1] >= 0 /\ result.value[k][2] # <<>>
        /\ (\E i \in Tagged(Top, "Event") : NegativeCount(Top[i]) \/ EmptyFormat(Top[i]))
              => result.kind = "error"

\* get_events failed at an Event node with a negative count, after an Event
\* node that gave an entry.
C30_Witness ==
    /\ Called("get_events") /\ RootIsFormat
    /\ result.kind = "error" /\ result.err = "MissingEventAttribute"
    /\ Len(result.visited) > 1
    /\ NegativeCount(Top[Last(result.visited)])
    /\ get_event_data(Top[result.visited[1]]).kind = "ok"

====
